---- MODULE Spec2Model ----
(***************************************************************************)
(* Model of the expeer analysis pipeline (Akicuo/expeer).                  *)
(*                                                                         *)
(* The state machine follows one call of analyzer.Analyze on a binary with *)
(* one section: disassembleCode selects the section, DisassembleSection    *)
(* sweeps it with EnhancedDecodeInstruction (falling back to the old       *)
(* decodeInstruction), and Analyze returns to its caller.                  *)
(*                                                                         *)
(* Representation.  A byte is a number in 0..255 and a byte slice is a     *)
(* sequence of bytes; Go index i is element i+1.  Go strings are TLA+      *)
(* strings.  A uint64 is held as the int64 reading of its bit pattern      *)
(* (two's complement), so that 0xFFFFFFFFFFFFFFFB is -5; addition modulo   *)
(* 2^64 is then integer addition as long as no sum leaves the int64 range, *)
(* which the bounded inputs below never do.                                *)
(***************************************************************************)
EXTENDS Integers, Sequences, FiniteSets, TLC

VARIABLES
    arch,          \* Binary.Arch
    section,       \* the binary's section: [Name, Address, Data, Flags]
    pc,            \* position of the Analyze call
    offset,        \* DisassembleSection: offset
    instructions,  \* DisassembleSection: fallbackInstructions
    skipped,       \* DisassembleSection: how many times `offset++` ran
    last,          \* DisassembleSection: the decoders' results of the latest iteration
    sweepErr,      \* error returned by DisassembleSection ("" is nil)
    analyzeRet,    \* what Analyze returned: [done, err, functions]
    func,          \* the disasm.Function handed to BuildCFG and Decompile
    lpc,           \* position of the calls on func
    graph,         \* the *ControlFlowGraph BuildCFG returned
    loops,         \* what DetectLoops (or constructLoop) returned
    conds,         \* what DetectConditionals returned
    df,            \* the *DecompiledFunction Decompile returned
    edge,          \* the (tail, header) constructLoop was called with
    binarySymbols  \* Binary.Symbols

sweep ==
    <<arch, section, pc, offset, instructions, skipped, last, sweepErr, analyzeRet,
      binarySymbols>>

lift == <<func, lpc, graph, loops, conds, df, edge>>

vars ==
    <<arch, section, pc, offset, instructions, skipped, last, sweepErr, analyzeRet,
      func, lpc, graph, loops, conds, df, edge, binarySymbols>>

-----------------------------------------------------------------------------
(* Instruction categories (iota order of the source).                      *)

CatUnknown == 0
CatDataTransfer == 1
CatArithmetic == 2
CatLogical == 3
CatCompare == 4
CatCall == 5
CatReturn == 6
CatJump == 7
CatStack == 8
CatInterrupt == 9
CatNop == 10
CatOther == 11

(* Instruction{}: the zero value of the struct.                            *)
ZeroInstruction ==
    [Address |-> 0, Bytes |-> <<>>, Mnemonic |-> "", Operands |-> "",
     Size |-> 0, Category |-> CatUnknown, IsConditional |-> FALSE,
     IsBranch |-> FALSE, BranchTarget |-> 0, FallsThrough |-> FALSE]

-----------------------------------------------------------------------------
(* Formatting (fmt.Sprintf verbs used by the decoders).                    *)

HexDigit(n) == SubSeq("0123456789abcdef", n + 1, n + 1)

RECURSIVE Hex(_)
(* %x of a non-negative number *)
Hex(n) == IF n < 16 THEN HexDigit(n) ELSE Hex(n \div 16) \o HexDigit(n % 16)

(* %02x of a byte *)
Hex2(b) == HexDigit(b \div 16) \o HexDigit(b % 16)

RECURSIVE HexPadded(_)
HexPadded(bs) ==
    IF bs = <<>> THEN ""
    ELSE HexPadded(SubSeq(bs, 1, Len(bs) - 1)) \o Hex2(bs[Len(bs)])

RECURSIVE HexLE(_)
(* %x of the unsigned number whose little-endian bytes are bs *)
HexLE(bs) ==
    IF Len(bs) = 1 THEN Hex(bs[1])
    ELSE IF bs[Len(bs)] = 0 THEN HexLE(SubSeq(bs, 1, Len(bs) - 1))
    ELSE Hex(bs[Len(bs)]) \o HexPadded(SubSeq(bs, 1, Len(bs) - 1))

RECURSIVE HexNot(_, _)
(* the k low hex digits of the bitwise complement of m *)
HexNot(m, k) ==
    IF k = 0 THEN ""
    ELSE HexNot(m \div 16, k - 1) \o HexDigit(15 - (m % 16))

(* %x of a uint64 held as its int64 reading *)
HexU64(v) == IF v >= 0 THEN Hex(v) ELSE "ffffffff" \o HexNot(-v - 1, 8)

(* %x of an int8: Go prints the sign and the magnitude *)
HexI8(v) == IF v >= 0 THEN Hex(v) ELSE "-" \o Hex(-v)

(* int8(b) *)
Int8(b) == IF b >= 128 THEN b - 256 ELSE b

(* int32(binary.LittleEndian.Uint32(data[o:o+4])), o a Go index *)
Int32LE(data, o) ==
    data[o + 1] + 256 * data[o + 2] + 65536 * data[o + 3]
        + 16777216 * Int8(data[o + 4])

(* data[o:o+n] *)
Slice(data, o, n) == SubSeq(data, o + 1, o + n)

(* data[o:] *)
SliceFrom(data, o) == SubSeq(data, o + 1, Len(data))

-----------------------------------------------------------------------------
(* Register names.                                                         *)

regName8(n) == <<"al", "cl", "dl", "bl", "ah", "ch", "dh", "bh">>[n + 1]

regName64(n, is64) ==
    IF is64
    THEN <<"rax", "rcx", "rdx", "rbx", "rsp", "rbp", "rsi", "rdi">>[n + 1]
    ELSE <<"eax", "ecx", "edx", "ebx", "esp", "ebp", "esi", "edi">>[n + 1]

sregs == <<"es", "cs", "ss", "ds", "fs", "gs", "seg6", "seg7">>

ccSuffix ==
    <<"o", "no", "b", "ae", "e", "ne", "be", "a",
      "s", "ns", "p", "np", "l", "ge", "le", "g">>

(* jccMnemonic(opcode): "j" and the condition of the low nibble *)
jccMnemonic(opcode) == "j" \o ccSuffix[(opcode % 16) + 1]

(* jccMnemonic(opcode)[1:] *)
jccTail(opcode) == ccSuffix[(opcode % 16) + 1]

(* ModR/M fields *)
ModOf(modrm) == modrm \div 64
RegOf(modrm) == (modrm \div 8) % 8
RmOf(modrm) == modrm % 8

(* decodeModRMDetailed(modrm, data, is64): the (rm, reg) operand strings.  *)
(* With mod = 1 the code reads data[0] without a length check, which       *)
(* panics (index out of range) on an empty slice.                          *)
decodeModRMDetailed(modrm, data, is64) ==
    LET regStr == regName64(RegOf(modrm), is64)
        rmStr == regName64(RmOf(modrm), is64)
    IN  CASE ModOf(modrm) = 0 ->
               [panic |-> FALSE, rm |-> "[" \o rmStr \o "]", reg |-> regStr]
          [] ModOf(modrm) = 1 ->
               IF Len(data) = 0
               THEN [panic |-> TRUE, rm |-> "", reg |-> ""]
               ELSE [panic |-> FALSE,
                     rm |-> "[" \o rmStr \o "+0x" \o Hex(data[1]) \o "]",
                     reg |-> regStr]
          [] ModOf(modrm) = 2 ->
               IF Len(data) >= 4
               THEN [panic |-> FALSE,
                     rm |-> "[" \o rmStr \o "+0x" \o HexLE(Slice(data, 0, 4)) \o "]",
                     reg |-> regStr]
               ELSE [panic |-> FALSE, rm |-> "[" \o rmStr \o "+disp32]",
                     reg |-> regStr]
          [] OTHER ->
               [panic |-> FALSE, rm |-> rmStr, reg |-> regStr]

-----------------------------------------------------------------------------
(* EnhancedDecodeInstruction.                                              *)
(*                                                                         *)
(* The body of the opcode switch yields a partial result: st is "ok" when  *)
(* control reaches the end of the switch with offset = off, "fail" for     *)
(* `return Instruction{}, 0`, and "panic" for a run-time panic.            *)

Failed ==
    [st |-> "fail", off |-> 0, Mnemonic |-> "", Operands |-> "",
     Category |-> CatUnknown, IsConditional |-> FALSE, IsBranch |-> FALSE,
     BranchTarget |-> 0, FallsThrough |-> FALSE]

Panicked == [Failed EXCEPT !.st = "panic"]

(* inst.Mnemonic, inst.Operands, inst.Category set; offset = off *)
Decoded(mn, ops, cat, off) ==
    [st |-> "ok", off |-> off, Mnemonic |-> mn, Operands |-> ops,
     Category |-> cat, IsConditional |-> FALSE, IsBranch |-> FALSE,
     BranchTarget |-> 0, FallsThrough |-> FALSE]

(* a relative branch: Operands is the target in hex, IsBranch is set *)
DecodedBranch(mn, cat, target, cond, falls, off) ==
    [st |-> "ok", off |-> off, Mnemonic |-> mn,
     Operands |-> "0x" \o HexU64(target), Category |-> cat,
     IsConditional |-> cond, IsBranch |-> TRUE, BranchTarget |-> target,
     FallsThrough |-> falls]

(* The prefix loop: up to four legacy prefixes, then (64-bit mode) one REX *)
(* byte, which ends the loop.  Yields offset and rexW.                     *)
LegacyPrefixes ==
    {\hF0, \hF2, \hF3, \h2E, \h36, \h3E, \h26, \h64, \h65, \h66, \h67}

RECURSIVE ScanPrefixes(_, _, _)
ScanPrefixes(data, off, is64bit) ==
    IF off < Len(data) /\ off < 4
    THEN IF data[off + 1] \in LegacyPrefixes
         THEN ScanPrefixes(data, off + 1, is64bit)
         ELSE IF is64bit /\ data[off + 1] >= \h40 /\ data[off + 1] <= \h4F
              THEN [offset |-> off + 1,
                    rexW |-> ((data[off + 1] \div 8) % 2 = 1)]
              ELSE [offset |-> off, rexW |-> FALSE]
    ELSE [offset |-> off, rexW |-> FALSE]

(* `op r/m, r` and `op r, r/m`: ModR/M byte at data[o], operands from      *)
(* decodeModRMDetailed; the displacement bytes are not added to offset.    *)
PairDecoded(m, mn, cat, swap, off) ==
    IF m.panic THEN Panicked
    ELSE Decoded(mn,
                 IF swap THEN m.reg \o ", " \o m.rm ELSE m.rm \o ", " \o m.reg,
                 cat, off)

ModRMPair(data, o, rexW, mn, cat, swap) ==
    IF o >= Len(data) THEN Failed
    ELSE PairDecoded(decodeModRMDetailed(data[o + 1], SliceFrom(data, o + 1), rexW),
                     mn, cat, swap, o + 1)

(* `op r/m`: the operand is the r/m string alone *)
SingleDecoded(m, mn, cat, off) ==
    IF m.panic THEN Panicked ELSE Decoded(mn, m.rm, cat, off)

ModRMSingle(data, o, rexW, mn, cat) ==
    IF o >= Len(data) THEN Failed
    ELSE SingleDecoded(decodeModRMDetailed(data[o + 1], SliceFrom(data, o + 1), rexW),
                       mn, cat, o + 1)

(* one immediate byte, printed between pre and post *)
Imm8Form(data, o, mn, pre, post, cat) ==
    IF o >= Len(data) THEN Failed
    ELSE Decoded(mn, pre \o "0x" \o Hex(data[o + 1]) \o post, cat, o + 1)

(* n immediate bytes (2: Uint16, 4: Uint32), printed between pre and post *)
ImmForm(data, o, n, mn, pre, post, cat) ==
    IF o + n > Len(data) THEN Failed
    ELSE Decoded(mn, pre \o "0x" \o HexLE(Slice(data, o, n)) \o post, cat, o + n)

(* rel8 branch computed from the running offset (JMP rel8, Jcc rel8) *)
Rel8Branch(data, addr, o, mn, cond, falls) ==
    IF o >= Len(data) THEN Failed
    ELSE DecodedBranch(mn, CatJump, addr + (o + 1) + Int8(data[o + 1]),
                       cond, falls, o + 1)

(* rel32 branch computed from the running offset (JMP, CALL, Jcc rel32) *)
Rel32Branch(data, addr, o, mn, cat, cond, falls) ==
    IF o + 4 > Len(data) THEN Failed
    ELSE DecodedBranch(mn, cat, addr + (o + 4) + Int32LE(data, o),
                       cond, falls, o + 4)

(* LOOPNE/LOOPE/LOOP/JRCXZ: target := addr + uint64(rel) + 2, whatever     *)
(* the number of prefix bytes; FallsThrough is left unset.                 *)
LoopBranch(data, addr, o, mn, cond) ==
    IF o >= Len(data) THEN Failed
    ELSE DecodedBranch(mn, CatJump, addr + Int8(data[o + 1]) + 2,
                       cond, FALSE, o + 1)

(* The eight operations of the 0x00-0x3B block and of group 1, by number.  *)
ArithMnemonic(n) ==
    <<"add", "or", "adc", "sbb", "and", "sub", "xor", "cmp">>[n + 1]

ArithCategory(n) ==
    <<CatArithmetic, CatLogical, CatArithmetic, CatArithmetic,
      CatLogical, CatArithmetic, CatLogical, CatCompare>>[n + 1]

(* 0x00-0x03, 0x08-0x0B, ... 0x38-0x3B: `op r/m, r` (low bits 0,1) and     *)
(* `op r, r/m` (low bits 2,3)                                              *)
ArithModRM(data, o, rexW, opcode) ==
    ModRMPair(data, o, rexW, ArithMnemonic(opcode \div 8),
              ArithCategory(opcode \div 8), (opcode \div 2) % 2 = 1)

(* 0x04, 0x0C, ... 0x3C: `op al, imm8` *)
ArithAccImm8(data, o, opcode) ==
    Imm8Form(data, o, ArithMnemonic(opcode \div 8), "al, ", "",
             ArithCategory(opcode \div 8))

(* 0x05, 0x0D, ... 0x3D: `op eax, imm32` *)
ArithAccImm32(data, o, opcode) ==
    ImmForm(data, o, 4, ArithMnemonic(opcode \div 8), "eax, ", "",
            ArithCategory(opcode \div 8))

(* %x of uint32(int8(b)): the byte sign-extended to 32 bits *)
HexSext32(b) == IF b >= 128 THEN "ffffff" \o Hex2(b) ELSE Hex(b)

(* Group 1 (0x80-0x83): operation from the reg field, then the immediate.  *)
Group1Imm(m, data, o1, opcode, mn, cat) ==
    IF m.panic THEN Panicked
    ELSE IF opcode = \h80 \/ opcode = \h82
    THEN IF o1 >= Len(data) THEN Failed
         ELSE Decoded(mn, m.rm \o ", 0x" \o Hex(data[o1 + 1]), cat, o1 + 1)
    ELSE IF opcode = \h83
    THEN IF o1 >= Len(data) THEN Failed
         ELSE Decoded(mn, m.rm \o ", 0x" \o HexSext32(data[o1 + 1]), cat, o1 + 1)
    ELSE IF o1 + 4 > Len(data) THEN Failed
         ELSE Decoded(mn, m.rm \o ", 0x" \o HexLE(Slice(data, o1, 4)), cat, o1 + 4)

Group1(data, o, rexW, opcode) ==
    IF o >= Len(data) THEN Failed
    ELSE Group1Imm(decodeModRMDetailed(data[o + 1], SliceFrom(data, o + 1), rexW),
                   data, o + 1, opcode,
                   ArithMnemonic(RegOf(data[o + 1])),
                   ArithCategory(RegOf(data[o + 1])))

(* MOV r/m, imm (0xC6: imm8, 0xC7: imm32) *)
MovImmDecoded(m, data, o1, n) ==
    IF m.panic THEN Panicked
    ELSE IF o1 + n > Len(data) THEN Failed
    ELSE Decoded("mov", m.rm \o ", 0x" \o HexLE(Slice(data, o1, n)),
                 CatDataTransfer, o1 + n)

MovImm(data, o, rexW, opcode) ==
    IF o >= Len(data) THEN Failed
    ELSE MovImmDecoded(decodeModRMDetailed(data[o + 1], SliceFrom(data, o + 1), rexW),
                       data, o + 1, IF opcode = \hC6 THEN 1 ELSE 4)

(* IMUL r, r/m, imm (0x69: imm32, 0x6B: int8) *)
ImulImmDecoded(m, data, o1, opcode) ==
    IF m.panic THEN Panicked
    ELSE IF opcode = \h69
    THEN IF o1 + 4 > Len(data) THEN Failed
         ELSE Decoded("imul",
                      m.rm \o ", " \o m.reg \o ", 0x" \o HexLE(Slice(data, o1, 4)),
                      CatArithmetic, o1 + 4)
    ELSE IF o1 >= Len(data) THEN Failed
         ELSE Decoded("imul",
                      m.rm \o ", " \o m.reg \o ", 0x" \o HexI8(Int8(data[o1 + 1])),
                      CatArithmetic, o1 + 1)

ImulImm(data, o, rexW, opcode) ==
    IF o >= Len(data) THEN Failed
    ELSE ImulImmDecoded(decodeModRMDetailed(data[o + 1], SliceFrom(data, o + 1), rexW),
                        data, o + 1, opcode)

(* Group 0xFF: INC/DEC/CALL/JMP r/m by the reg field; no operand string *)
GroupFF(data, o) ==
    IF o >= Len(data) THEN Failed
    ELSE LET reg == RegOf(data[o + 1])
         IN  CASE reg = 0 -> Decoded("inc", "", CatArithmetic, o + 1)
               [] reg = 1 -> Decoded("dec", "", CatArithmetic, o + 1)
               [] reg = 2 ->
                    [Decoded("call", "", CatCall, o + 1)
                        EXCEPT !.FallsThrough = TRUE]
               [] reg = 4 ->
                    [Decoded("jmp", "", CatJump, o + 1) EXCEPT !.IsBranch = TRUE]
               [] OTHER -> Decoded("ff_op", "", CatUnknown, o + 1)

(* Shift/rotate group (0xC0, 0xC1, 0xD0-0xD3) *)
ShiftGroup(data, o, opcode) ==
    IF o >= Len(data) THEN Failed
    ELSE LET reg == RegOf(data[o + 1])
             mn == <<"rol", "ror", "rcl", "rcr", "shl", "shr", "shift_op",
                     "sar">>[reg + 1]
             o1 == o + 1
         IN  Decoded(mn, "", CatLogical,
                     IF (opcode = \hC0 \/ opcode = \hC1) /\ o1 < Len(data)
                     THEN o1 + 1 ELSE o1)

(* Group 3 (0xF6, 0xF7): TEST adds its immediate to offset unchecked *)
Group3(data, o, opcode) ==
    IF o >= Len(data) THEN Failed
    ELSE LET reg == RegOf(data[o + 1])
             o1 == o + 1
         IN  CASE reg \in {0, 1} ->
                    Decoded("test", "", CatCompare,
                            IF opcode = \hF6 THEN o1 + 1 ELSE o1 + 4)
               [] reg = 2 -> Decoded("not", "", CatLogical, o1)
               [] reg = 3 -> Decoded("neg", "", CatArithmetic, o1)
               [] reg = 4 -> Decoded("mul", "", CatArithmetic, o1)
               [] reg = 5 -> Decoded("imul", "", CatArithmetic, o1)
               [] reg = 6 -> Decoded("div", "", CatArithmetic, o1)
               [] OTHER -> Decoded("idiv", "", CatArithmetic, o1)

(* INC/DEC r/m8 (0xFE) *)
GroupFE(data, o, rexW) ==
    IF o >= Len(data) THEN Failed
    ELSE LET reg == RegOf(data[o + 1])
         IN  ModRMSingle(data, o, rexW,
                         IF reg = 0 THEN "inc" ELSE IF reg = 1 THEN "dec" ELSE "fe_op",
                         CatArithmetic)

(* MOV to/from a segment register (0x8C, 0x8E) *)
MovSregDecoded(m, sreg, opcode, off) ==
    IF m.panic THEN Panicked
    ELSE Decoded("mov",
                 IF opcode = \h8C THEN m.rm \o ", " \o sreg
                                  ELSE sreg \o ", " \o m.reg,
                 CatDataTransfer, off)

MovSreg(data, o, rexW, opcode) ==
    IF o >= Len(data) THEN Failed
    ELSE MovSregDecoded(decodeModRMDetailed(data[o + 1], SliceFrom(data, o + 1), rexW),
                        sregs[RegOf(data[o + 1]) + 1], opcode, o + 1)

(* Far call/jump ptr16:32 (0x9A, 0xEA): six operand bytes *)
FarPtr(data, o, mn, cat) ==
    IF o + 6 > Len(data) THEN Failed
    ELSE Decoded(mn,
                 "0x" \o HexLE(Slice(data, o + 4, 2)) \o ":0x"
                     \o HexLE(Slice(data, o, 4)),
                 cat, o + 6)

(* VEX prefix or LES/LDS (0xC4, 0xC5) *)
VexOrLoad(data, o, rexW, opcode) ==
    IF o >= Len(data)
    THEN Decoded(IF opcode = \hC4 THEN "vex_c4" ELSE "vex_c5", "", CatOther, o)
    ELSE IF data[o + 1] >= \hC0
    THEN IF opcode = \hC4 THEN Decoded("vex3", "", CatOther, o + 2)
                          ELSE Decoded("vex2", "", CatOther, o + 1)
    ELSE ModRMPair(data, o, rexW, IF opcode = \hC4 THEN "les" ELSE "lds",
                   CatDataTransfer, FALSE)

(* x87 opcodes 0xD8-0xDF *)
FpuD9Register(modrm) ==
    CASE modrm = \hE0 -> "fchs"
      [] modrm = \hE1 -> "fabs"
      [] modrm = \hE4 -> "ftst"
      [] modrm = \hE8 -> "fld1"
      [] modrm = \hE9 -> "fldl2t"
      [] modrm = \hEA -> "fldl2e"
      [] modrm = \hEB -> "fldpi"
      [] modrm = \hEC -> "fldlg2"
      [] modrm = \hED -> "fldln2"
      [] modrm = \hEE -> "fldz"
      [] OTHER -> "fpu_d9"

Fpu(data, o, rexW, opcode) ==
    IF o >= Len(data) THEN Failed
    ELSE LET modrm == data[o + 1]
             raw == "0x" \o Hex2(modrm)
         IN  CASE opcode = \hD8 -> Decoded("fpu_d8", raw, CatOther, o + 1)
               [] opcode = \hD9 ->
                    IF modrm >= \hC0
                    THEN Decoded(FpuD9Register(modrm),
                                 IF FpuD9Register(modrm) = "fpu_d9" THEN raw ELSE "",
                                 CatOther, o + 1)
                    ELSE ModRMSingle(data, o, rexW, "fld", CatOther)
               [] opcode = \hDA -> Decoded("fpu_da", raw, CatOther, o + 1)
               [] opcode = \hDB ->
                    IF modrm = \hE3 THEN Decoded("fninit", "", CatOther, o + 1)
                    ELSE Decoded("fpu_db", raw, CatOther, o + 1)
               [] opcode = \hDC -> Decoded("fpu_dc", raw, CatOther, o + 1)
               [] opcode = \hDD -> Decoded("fpu_dd", raw, CatOther, o + 1)
               [] opcode = \hDE -> Decoded("fpu_de", raw, CatOther, o + 1)
               [] OTHER ->
                    IF modrm = \hE0 THEN Decoded("fnstsw", "ax", CatOther, o + 1)
                    ELSE Decoded("fpu_df", raw, CatOther, o + 1)

(* A two-byte form that needs (and skips) one more byte *)
TwoByteSkip(data, o2, mn, cat) ==
    IF o2 >= Len(data) THEN Failed ELSE Decoded(mn, "", cat, o2 + 1)

SseArithMnemonic(opcode2) ==
    CASE opcode2 = \h58 -> "addps"
      [] opcode2 = \h59 -> "mulps"
      [] opcode2 = \h5C -> "subps"
      [] opcode2 = \h5D -> "minps"
      [] opcode2 = \h5E -> "divps"
      [] OTHER -> "maxps"

(* case 0x0F: the second opcode byte is data[o] *)
TwoByte(data, addr, rexW, o) ==
    IF o >= Len(data) THEN Failed
    ELSE LET opcode2 == data[o + 1]
             o2 == o + 1
         IN  CASE opcode2 \in \h80 .. \h8F ->
                    \* jccMnemonic(opcode2 - 0x10): the low nibble is unchanged
                    Rel32Branch(data, addr, o2, jccMnemonic(opcode2 - 16),
                                CatJump, TRUE, TRUE)
               [] opcode2 \in \h90 .. \h9F ->
                    TwoByteSkip(data, o2, "set" \o jccTail(opcode2 - \h90),
                                CatDataTransfer)
               [] opcode2 \in \h40 .. \h4F ->
                    TwoByteSkip(data, o2, "cmov" \o jccTail(opcode2 - \h40),
                                CatDataTransfer)
               [] opcode2 \in {\hB6, \hB7} ->
                    TwoByteSkip(data, o2, "movzx", CatDataTransfer)
               [] opcode2 \in {\hBE, \hBF} ->
                    TwoByteSkip(data, o2, "movsx", CatDataTransfer)
               [] opcode2 = \hBC -> TwoByteSkip(data, o2, "bsf", CatLogical)
               [] opcode2 = \hBD -> TwoByteSkip(data, o2, "bsr", CatLogical)
               [] opcode2 = \hA3 -> Decoded("bt", "", CatLogical, o2)
               [] opcode2 = \hAB -> Decoded("bts", "", CatLogical, o2)
               [] opcode2 = \hB3 -> Decoded("btr", "", CatLogical, o2)
               [] opcode2 = \hBB -> Decoded("btc", "", CatLogical, o2)
               [] opcode2 = \hAF -> TwoByteSkip(data, o2, "imul", CatArithmetic)
               [] opcode2 \in {\hC0, \hC1} ->
                    TwoByteSkip(data, o2, "xadd", CatArithmetic)
               [] opcode2 \in {\hB0, \hB1} ->
                    TwoByteSkip(data, o2, "cmpxchg", CatArithmetic)
               [] opcode2 \in \hC8 .. \hCF ->
                    Decoded("bswap", regName64(opcode2 - \hC8, rexW),
                            CatDataTransfer, o2)
               [] opcode2 \in {\h6E, \h7E} ->
                    TwoByteSkip(data, o2, "movd", CatDataTransfer)
               [] opcode2 \in {\h10, \h11} ->
                    TwoByteSkip(data, o2, "movups", CatDataTransfer)
               [] opcode2 \in {\h28, \h29} ->
                    TwoByteSkip(data, o2, "movaps", CatDataTransfer)
               [] opcode2 = \h57 -> TwoByteSkip(data, o2, "xorps", CatLogical)
               [] opcode2 \in {\h58, \h59, \h5C, \h5D, \h5E, \h5F} ->
                    TwoByteSkip(data, o2, SseArithMnemonic(opcode2), CatArithmetic)
               [] opcode2 \in {\h74, \h75, \h76} ->
                    TwoByteSkip(data, o2, "pcmpeq", CatCompare)
               [] opcode2 = \hC3 -> TwoByteSkip(data, o2, "movnti", CatDataTransfer)
               [] opcode2 = \h18 -> TwoByteSkip(data, o2, "prefetch", CatOther)
               [] opcode2 = \h0B -> Decoded("ud2", "", CatInterrupt, o2)
               [] opcode2 = \hAE ->
                    IF o2 >= Len(data) THEN Failed
                    ELSE LET reg == RegOf(data[o2 + 1])
                         IN  Decoded(CASE reg = 5 -> "lfence"
                                       [] reg = 6 -> "mfence"
                                       [] reg = 7 -> "sfence"
                                       [] OTHER -> "0f_ae",
                                     "", CatOther, o2 + 1)
               [] opcode2 \in {\h1F, \h0D} ->
                    Decoded("nop", "", CatNop,
                            IF o2 < Len(data) THEN o2 + 1 ELSE o2)
               [] OTHER -> Decoded("0f_" \o Hex2(opcode2), "", CatUnknown, o2)

(* Opcodes that take no further byte: mnemonic, operands, category *)
SimpleOps ==
    [op \in {\h90, \hA4, \hA5, \hA6, \hA7, \hAA, \hAB, \hAC, \hAD, \hAE, \hAF,
             \h9E, \h9F, \hC9, \hF4, \h9B, \h9C, \h9D, \hF8, \hF9, \hFA, \hFB,
             \hFC, \hFD, \hCC, \hCE, \hCF, \hC3, \hCB, \h06, \h07, \h0E, \h16,
             \h17, \h1E, \h1F, \h60, \h61, \h6C, \h6D, \h6E, \h6F, \h27, \h2F,
             \h37, \h3F, \hD6, \hD7, \hEC, \hED, \hEE, \hEF, \hF1, \hF5} |->
        CASE op = \h90 -> <<"nop", "", CatNop>>
          [] op = \hA4 -> <<"movsb", "", CatDataTransfer>>
          [] op = \hA5 -> <<"movs", "", CatDataTransfer>>
          [] op = \hA6 -> <<"cmpsb", "", CatCompare>>
          [] op = \hA7 -> <<"cmps", "", CatCompare>>
          [] op = \hAA -> <<"stosb", "", CatDataTransfer>>
          [] op = \hAB -> <<"stos", "", CatDataTransfer>>
          [] op = \hAC -> <<"lodsb", "", CatDataTransfer>>
          [] op = \hAD -> <<"lods", "", CatDataTransfer>>
          [] op = \hAE -> <<"scasb", "", CatCompare>>
          [] op = \hAF -> <<"scas", "", CatCompare>>
          [] op = \h9E -> <<"sahf", "", CatDataTransfer>>
          [] op = \h9F -> <<"lahf", "", CatDataTransfer>>
          [] op = \hC9 -> <<"leave", "", CatStack>>
          [] op = \hF4 -> <<"hlt", "", CatInterrupt>>
          [] op = \h9B -> <<"wait", "", CatOther>>
          [] op = \h9C -> <<"pushf", "", CatStack>>
          [] op = \h9D -> <<"popf", "", CatStack>>
          [] op = \hF8 -> <<"clc", "", CatOther>>
          [] op = \hF9 -> <<"stc", "", CatOther>>
          [] op = \hFA -> <<"cli", "", CatOther>>
          [] op = \hFB -> <<"sti", "", CatOther>>
          [] op = \hFC -> <<"cld", "", CatOther>>
          [] op = \hFD -> <<"std", "", CatOther>>
          [] op = \hCC -> <<"int", "3", CatInterrupt>>
          [] op = \hCE -> <<"into", "", CatInterrupt>>
          [] op = \hCF -> <<"iret", "", CatReturn>>
          [] op = \hC3 -> <<"ret", "", CatReturn>>
          [] op = \hCB -> <<"retf", "", CatReturn>>
          [] op = \h06 -> <<"push", "es", CatStack>>
          [] op = \h07 -> <<"pop", "es", CatStack>>
          [] op = \h0E -> <<"push", "cs", CatStack>>
          [] op = \h16 -> <<"push", "ss", CatStack>>
          [] op = \h17 -> <<"pop", "ss", CatStack>>
          [] op = \h1E -> <<"push", "ds", CatStack>>
          [] op = \h1F -> <<"pop", "ds", CatStack>>
          [] op = \h60 -> <<"pusha", "", CatStack>>
          [] op = \h61 -> <<"popa", "", CatStack>>
          [] op = \h6C -> <<"insb", "", CatOther>>
          [] op = \h6D -> <<"insd", "", CatOther>>
          [] op = \h6E -> <<"outsb", "", CatOther>>
          [] op = \h6F -> <<"outsd", "", CatOther>>
          [] op = \h27 -> <<"daa", "", CatArithmetic>>
          [] op = \h2F -> <<"das", "", CatArithmetic>>
          [] op = \h37 -> <<"aaa", "", CatArithmetic>>
          [] op = \h3F -> <<"aas", "", CatArithmetic>>
          [] op = \hD6 -> <<"salc", "", CatOther>>
          [] op = \hD7 -> <<"xlat", "", CatDataTransfer>>
          [] op = \hEC -> <<"in", "al, dx", CatOther>>
          [] op = \hED -> <<"in", "eax, dx", CatOther>>
          [] op = \hEE -> <<"out", "dx, al", CatOther>>
          [] op = \hEF -> <<"out", "dx, eax", CatOther>>
          [] op = \hF1 -> <<"int1", "", CatInterrupt>>
          [] OTHER -> <<"cmc", "", CatOther>>]

(* The opcode switch.  o is offset after the opcode byte was consumed.     *)
DecodeOpcode(data, addr, is64bit, rexW, o, opcode) ==
    CASE opcode \in \h50 .. \h57 ->
           Decoded("push", regName64(opcode - \h50, rexW), CatStack, o)
      [] opcode \in \h58 .. \h5F ->
           Decoded("pop", regName64(opcode - \h58, rexW), CatStack, o)
      [] opcode \in \h88 .. \h8B ->
           ModRMPair(data, o, rexW, "mov", CatDataTransfer, (opcode \div 2) % 2 = 1)
      [] opcode \in \hB0 .. \hB7 ->
           Imm8Form(data, o, "mov", regName8(opcode - \hB0) \o ", ", "",
                    CatDataTransfer)
      [] opcode \in \hB8 .. \hBF ->
           ImmForm(data, o, 4, "mov", regName64(opcode - \hB8, rexW) \o ", ", "",
                   CatDataTransfer)
      [] opcode < \h40 /\ opcode % 8 \in 0 .. 3 -> ArithModRM(data, o, rexW, opcode)
      [] opcode < \h40 /\ opcode % 8 = 4 -> ArithAccImm8(data, o, opcode)
      [] opcode < \h40 /\ opcode % 8 = 5 -> ArithAccImm32(data, o, opcode)
      [] opcode \in {\h84, \h85} ->
           ModRMPair(data, o, rexW, "test", CatCompare, FALSE)
      [] opcode = \hE9 -> Rel32Branch(data, addr, o, "jmp", CatJump, FALSE, FALSE)
      [] opcode = \hEB -> Rel8Branch(data, addr, o, "jmp", FALSE, FALSE)
      [] opcode \in \h70 .. \h7F ->
           Rel8Branch(data, addr, o, jccMnemonic(opcode), TRUE, TRUE)
      [] opcode = \h0F -> TwoByte(data, addr, rexW, o)
      [] opcode = \hE8 -> Rel32Branch(data, addr, o, "call", CatCall, FALSE, TRUE)
      [] opcode = \hFF -> GroupFF(data, o)
      [] opcode = \hC2 -> ImmForm(data, o, 2, "ret", "", "", CatReturn)
      [] opcode = \h8D -> ModRMPair(data, o, rexW, "lea", CatDataTransfer, FALSE)
      [] opcode \in DOMAIN SimpleOps ->
           Decoded(SimpleOps[opcode][1], SimpleOps[opcode][2],
                   SimpleOps[opcode][3], o)
      [] opcode \in \h40 .. \h47 ->
           IF ~is64bit
           THEN Decoded("inc", regName64(opcode - \h40, FALSE), CatArithmetic, o)
           ELSE Decoded("rex", "", CatOther, o)
      [] opcode = \h48 ->
           IF ~is64bit THEN Decoded("dec", "eax", CatArithmetic, o)
           ELSE Decoded("", "", CatUnknown, o)
      [] opcode \in {\h86, \h87} ->
           ModRMPair(data, o, rexW, "xchg", CatDataTransfer, FALSE)
      [] opcode \in \h91 .. \h97 ->
           Decoded("xchg",
                   regName64(0, rexW) \o ", " \o regName64(opcode - \h90, rexW),
                   CatDataTransfer, o)
      [] opcode = \h98 ->
           Decoded(IF rexW THEN "cdqe" ELSE "cwde", "", CatDataTransfer, o)
      [] opcode = \h99 ->
           Decoded(IF rexW THEN "cqo" ELSE "cdq", "", CatDataTransfer, o)
      [] opcode \in {\hC0, \hC1, \hD0, \hD1, \hD2, \hD3} ->
           ShiftGroup(data, o, opcode)
      [] opcode \in {\hF6, \hF7} -> Group3(data, o, opcode)
      [] opcode = \hC8 ->
           IF o + 2 < Len(data) THEN Decoded("enter", "", CatStack, o + 3)
           ELSE Decoded("", "", CatUnknown, o)
      [] opcode = \hCD -> Imm8Form(data, o, "int", "", "", CatInterrupt)
      [] opcode \in \h80 .. \h83 -> Group1(data, o, rexW, opcode)
      [] opcode \in {\hC6, \hC7} -> MovImm(data, o, rexW, opcode)
      [] opcode = \h68 -> ImmForm(data, o, 4, "push", "", "", CatStack)
      [] opcode = \h6A ->
           IF o >= Len(data) THEN Failed
           ELSE Decoded("push", "0x" \o HexI8(Int8(data[o + 1])), CatStack, o + 1)
      [] opcode \in {\h69, \h6B} -> ImulImm(data, o, rexW, opcode)
      [] opcode = \hFE -> GroupFE(data, o, rexW)
      [] opcode = \hE0 -> LoopBranch(data, addr, o, "loopne", FALSE)
      [] opcode = \hE1 -> LoopBranch(data, addr, o, "loope", FALSE)
      [] opcode = \hE2 -> LoopBranch(data, addr, o, "loop", FALSE)
      [] opcode = \hE3 -> LoopBranch(data, addr, o, "jrcxz", TRUE)
      [] opcode = \h62 -> ModRMPair(data, o, rexW, "bound", CatOther, FALSE)
      [] opcode = \h63 ->
           ModRMPair(data, o, rexW, IF rexW THEN "movsxd" ELSE "arpl",
                     CatDataTransfer, FALSE)
      [] opcode \in {\h8C, \h8E} -> MovSreg(data, o, rexW, opcode)
      [] opcode = \h8F -> ModRMSingle(data, o, rexW, "pop", CatStack)
      [] opcode = \hA8 -> Imm8Form(data, o, "test", "al, ", "", CatCompare)
      [] opcode = \hA9 -> ImmForm(data, o, 4, "test", "eax, ", "", CatCompare)
      [] opcode = \hA0 -> ImmForm(data, o, 4, "mov", "al, [", "]", CatDataTransfer)
      [] opcode = \hA1 -> ImmForm(data, o, 4, "mov", "eax, [", "]", CatDataTransfer)
      [] opcode = \hA2 -> ImmForm(data, o, 4, "mov", "[", "], al", CatDataTransfer)
      [] opcode = \hA3 -> ImmForm(data, o, 4, "mov", "[", "], eax", CatDataTransfer)
      [] opcode = \hCA -> ImmForm(data, o, 2, "retf", "", "", CatReturn)
      [] opcode = \hD4 -> Imm8Form(data, o, "aam", "", "", CatArithmetic)
      [] opcode = \hD5 -> Imm8Form(data, o, "aad", "", "", CatArithmetic)
      [] opcode = \h9A -> FarPtr(data, o, "callf", CatCall)
      [] opcode = \hEA -> FarPtr(data, o, "jmpf", CatJump)
      [] opcode = \hE4 -> Imm8Form(data, o, "in", "al, ", "", CatOther)
      [] opcode = \hE5 -> Imm8Form(data, o, "in", "eax, ", "", CatOther)
      [] opcode = \hE6 -> Imm8Form(data, o, "out", "", ", al", CatOther)
      [] opcode = \hE7 -> Imm8Form(data, o, "out", "", ", eax", CatOther)
      [] opcode \in {\hC4, \hC5} -> VexOrLoad(data, o, rexW, opcode)
      [] opcode \in \hD8 .. \hDF -> Fpu(data, o, rexW, opcode)
      [] OTHER -> Decoded("unk_" \o Hex2(opcode), "", CatUnknown, o)

(* EnhancedDecodeInstruction(data, addr, arch): [panic, size, inst].       *)
(* After the switch produced r: inst.Size = offset, and inst.Bytes =       *)
(* data[:Size] only when 0 < Size <= len(data).                            *)
FinishDecode(r, data, addr) ==
    CASE r.st = "panic" -> [panic |-> TRUE, size |-> 0, inst |-> ZeroInstruction]
      [] r.st = "fail" -> [panic |-> FALSE, size |-> 0, inst |-> ZeroInstruction]
      [] OTHER ->
           [panic |-> FALSE, size |-> r.off,
            inst |->
              [Address |-> addr,
               Bytes |-> IF r.off > 0 /\ r.off <= Len(data)
                         THEN Slice(data, 0, r.off) ELSE <<>>,
               Mnemonic |-> r.Mnemonic,
               Operands |-> r.Operands,
               Size |-> r.off,
               Category |-> r.Category,
               IsConditional |-> r.IsConditional,
               IsBranch |-> r.IsBranch,
               BranchTarget |-> r.BranchTarget,
               FallsThrough |-> r.FallsThrough]]

(* from the label prefixes_done on; pre is the prefix loop's result *)
DecodeAfterPrefixes(data, addr, is64bit, pre) ==
    IF pre.offset >= Len(data)
    THEN [panic |-> FALSE, size |-> 0, inst |-> ZeroInstruction]
    ELSE FinishDecode(DecodeOpcode(data, addr, is64bit, pre.rexW,
                                   pre.offset + 1, data[pre.offset + 1]),
                      data, addr)

EnhancedDecodeInstruction(data, addr, archTag) ==
    IF Len(data) = 0
    THEN [panic |-> FALSE, size |-> 0, inst |-> ZeroInstruction]
    ELSE DecodeAfterPrefixes(data, addr, archTag = "x86_64",
                             ScanPrefixes(data, 0, archTag = "x86_64"))

-----------------------------------------------------------------------------
(* The old simple decoder, tried when the enhanced one returns size 0.     *)

regName(n, archTag) ==
    IF archTag = "x86_64"
    THEN <<"rax", "rcx", "rdx", "rbx", "rsp", "rbp", "rsi", "rdi">>[n + 1]
    ELSE <<"eax", "ecx", "edx", "ebx", "esp", "ebp", "esi", "edi">>[n + 1]

decodeModRM(modrm) ==
    LET regStr == regName(RegOf(modrm), "x86_64")
        rmStr == regName(RmOf(modrm), "x86_64")
    IN  CASE ModOf(modrm) = 0 -> regStr \o ", [" \o rmStr \o "]"
          [] ModOf(modrm) = 1 -> regStr \o ", [" \o rmStr \o "+disp8]"
          [] ModOf(modrm) = 2 -> regStr \o ", [" \o rmStr \o "+disp32]"
          [] OTHER -> regStr \o ", " \o rmStr

(* inst with Address, Mnemonic, Operands, Size and Bytes = data[:size] *)
SimpleInst(data, addr, mn, ops, size) ==
    [size |-> size,
     inst |-> [ZeroInstruction EXCEPT !.Address = addr, !.Mnemonic = mn,
                                      !.Operands = ops, !.Size = size,
                                      !.Bytes = Slice(data, 0, size)]]

SimpleFail == [size |-> 0, inst |-> ZeroInstruction]

decodeInstruction(data, addr, archTag) ==
    IF Len(data) = 0 THEN SimpleFail
    ELSE LET b == data[1]
         IN  CASE b = \h55 -> SimpleInst(data, addr, "push", "rbp", 1)
               [] b = \h48 ->
                    IF Len(data) < 2 THEN SimpleFail
                    ELSE IF data[2] \in {\h89, \h8B}
                    THEN IF Len(data) < 3 THEN SimpleFail
                         ELSE SimpleInst(data, addr, "mov", decodeModRM(data[3]), 3)
                    ELSE SimpleInst(data, addr, "rex.w+0x" \o Hex2(data[2]), "", 2)
               [] b \in {\h89, \h8B} ->
                    IF Len(data) < 2 THEN SimpleFail
                    ELSE SimpleInst(data, addr, "mov", decodeModRM(data[2]), 2)
               [] b = \hC3 -> SimpleInst(data, addr, "ret", "", 1)
               [] b = \hE8 ->
                    IF Len(data) < 5 THEN SimpleFail
                    ELSE SimpleInst(data, addr, "call",
                                    "0x" \o HexU64(addr + Int32LE(data, 1) + 5), 5)
               [] b = \hFF ->
                    IF Len(data) < 2 THEN SimpleFail
                    ELSE SimpleInst(data, addr,
                                    CASE RegOf(data[2]) = 2 -> "call"
                                      [] RegOf(data[2]) = 4 -> "jmp"
                                      [] OTHER -> "",
                                    decodeModRM(data[2]), 2)
               [] b \in {\h50, \h51, \h52, \h53, \h54, \h56, \h57} ->
                    SimpleInst(data, addr, "push", regName(b - \h50, archTag), 1)
               [] b \in \h58 .. \h5F ->
                    SimpleInst(data, addr, "pop", regName(b - \h58, archTag), 1)
               [] b = \h90 -> SimpleInst(data, addr, "nop", "", 1)
               [] OTHER -> SimpleInst(data, addr, "db 0x" \o Hex2(b), "", 1)

-----------------------------------------------------------------------------
(* The binary handed to Analyze.                                           *)

(* strings.ToLower, on ASCII names *)
UpperCase == "ABCDEFGHIJKLMNOPQRSTUVWXYZ"
LowerCase == "abcdefghijklmnopqrstuvwxyz"

LowerChar(c) ==
    IF \E i \in 1 .. Len(UpperCase) : SubSeq(UpperCase, i, i) = c
    THEN LET i == CHOOSE j \in 1 .. Len(UpperCase) : SubSeq(UpperCase, j, j) = c
         IN  SubSeq(LowerCase, i, i)
    ELSE c

RECURSIVE ToLower(_)
ToLower(str) ==
    IF Len(str) = 0 THEN ""
    ELSE LowerChar(SubSeq(str, 1, 1)) \o ToLower(SubSeq(str, 2, Len(str)))

(* strings.Contains *)
Contains(str, sub) ==
    \E i \in 1 .. Len(str) - Len(sub) + 1 : SubSeq(str, i, i + Len(sub) - 1) = sub

(* disassembleCode: the section name marks code *)
NameIsCode(name) ==
    Contains(ToLower(name), "text") \/ Contains(ToLower(name), "code")

(* flags & bit != 0, for a single-bit mask *)
HasFlag(flags, bit) == (flags \div bit) % 2 = 1

IMAGE_SCN_MEM_EXECUTE == 536870912
SHF_EXECINSTR == 4

(* disassembleCode: isCode *)
IsCodeSection(sec) ==
    \/ NameIsCode(sec.Name)
    \/ HasFlag(sec.Flags, IMAGE_SCN_MEM_EXECUTE)
    \/ HasFlag(sec.Flags, SHF_EXECINSTR)

(* DisassembleSection: the architectures the fallback decoder accepts *)
SupportedArch(a) == a = "x86_64" \/ a = "x86"

-----------------------------------------------------------------------------
(* FindFunctions: function discovery over the swept instruction list.      *)
(* Go index i of a slice is element i+1 here; the operators below take the *)
(* TLA+ position.                                                          *)

(* strings.HasPrefix *)
HasPrefix(str, pre) == Len(str) >= Len(pre) /\ SubSeq(str, 1, Len(pre)) = pre

(* symbolAddrs: addresses of the symbols that have a name *)
symbolAddrs(symbols) ==
    {symbols[k].Address : k \in {j \in DOMAIN symbols : symbols[j].Name # ""}}

(* symbolMap[addr]: the name of the last named symbol at addr, "" if none *)
RECURSIVE symbolMap(_, _)
symbolMap(symbols, addr) ==
    IF symbols = <<>> THEN ""
    ELSE IF symbols[Len(symbols)].Address = addr /\ symbols[Len(symbols)].Name # ""
         THEN symbols[Len(symbols)].Name
         ELSE symbolMap(SubSeq(symbols, 1, Len(symbols) - 1), addr)

(* isPaddingOrData's nopCount: 1 plus the nops that follow position i      *)
(* without a gap, looking at no more than nine of them                     *)
RECURSIVE nopCount(_, _, _)
nopCount(insts, i, left) ==
    IF left = 0 \/ i > Len(insts) \/ insts[i].Mnemonic # "nop"
    THEN 1
    ELSE 1 + nopCount(insts, i + 1, left - 1)

isPaddingOrData(insts, index) ==
    \/ insts[index].Mnemonic = "int" /\ insts[index].Operands = "3"
    \/ insts[index].Mnemonic = "nop" /\ nopCount(insts, index + 1, 9) > 5

(* isPaddingSequence: more than count/2 of the count instructions from     *)
(* start are int or nop                                                    *)
isPaddingSequence(insts, start, count) ==
    Cardinality({i \in start .. (start + count - 1) :
                    /\ i <= Len(insts)
                    /\ insts[i].Mnemonic \in {"int", "nop"}}) > count \div 2

(* first pass: instruction i is marked as a function start *)
isStart(insts, symbols, i) ==
    /\ ~isPaddingOrData(insts, i)
    /\ \/ insts[i].Address \in symbolAddrs(symbols)
       \/ /\ i > 1
          /\ insts[i - 1].Mnemonic = "ret"
          /\ insts[i].Mnemonic \notin {"nop", "int"}
          /\ ~HasPrefix(insts[i].Mnemonic, "unk_")
       \/ /\ insts[i].Mnemonic = "push"
          /\ insts[i].Operands \in {"rbp", "ebp"}
          /\ i < Len(insts)
          /\ ~isPaddingSequence(insts, i, 5)
       \/ /\ insts[i].Mnemonic = "sub"
          /\ Contains(insts[i].Operands, "rsp")
          /\ (i = 1 \/ insts[i - 1].Category = CatReturn)
       \/ /\ insts[i].Mnemonic = "mov"
          /\ Contains(insts[i].Operands, "rsp")
          /\ (i = 1 \/ insts[i - 1].Category = CatReturn)

funcStarts(insts, symbols) ==
    {insts[i].Address : i \in {j \in DOMAIN insts : isStart(insts, symbols, j)}}

(* &Function{Name: name, StartAddr: addr} *)
NewFunction(name, addr) ==
    [Name |-> name, StartAddr |-> addr, EndAddr |-> 0,
     Instructions |-> <<>>, Calls |-> <<>>]

(* The second pass keeps (functions, currentFunc); cur is <<>> for a nil   *)
(* currentFunc and <<f>> otherwise.                                        *)
(* the function is appended and currentFunc is left as it was *)
CloseKeepsCurrent(st, endAddr) ==
    [functions |-> Append(st.functions, [st.cur[1] EXCEPT !.EndAddr = endAddr]),
     cur |-> st.cur]

(* functions = append(functions, *currentFunc) with EndAddr set *)
CloseFunc(st, endAddr) ==
    [functions |-> IF Len(st.cur[1].Instructions) > 0
                   THEN Append(st.functions, [st.cur[1] EXCEPT !.EndAddr = endAddr])
                   ELSE st.functions,
     cur |-> <<>>]

(* `if funcStarts[inst.Address]`: close the running function, open a new one *)
OpenAt(st, inst, symbols) ==
    [functions |-> IF st.cur # <<>>
                   THEN CloseFunc(st, inst.Address - 1).functions
                   ELSE st.functions,
     cur |-> <<NewFunction(IF symbolMap(symbols, inst.Address) # ""
                           THEN symbolMap(symbols, inst.Address)
                           ELSE "sub_" \o HexU64(inst.Address),
                           inst.Address)>>]

(* the call tracked for inst: its own Address is what the code appends *)
TrackedCall(inst) == inst.Address

(* `if currentFunc != nil`: the instruction joins the function, a call is  *)
(* tracked, a ret closes the function                                      *)
Collect(st, inst) ==
    [st EXCEPT !.cur = <<[st.cur[1] EXCEPT
                            !.Instructions = Append(@, inst),
                            !.Calls = IF inst.Mnemonic = "call"
                                      THEN Append(@, TrackedCall(inst))
                                      ELSE @]>>]

(* a ret that leaves the function open *)
KeepOpen(st, inst) == st

AfterRet(st, inst) ==
    IF inst.Mnemonic = "ret" THEN CloseFunc(st, inst.Address) ELSE st

(* `if i == len(instructions)-1 && currentFunc != nil` *)
AfterLast(st, inst, isLast) ==
    IF isLast /\ st.cur # <<>> THEN CloseFunc(st, inst.Address) ELSE st

BodyStep(st, inst, isLast) ==
    AfterLast(IF st.cur # <<>> THEN AfterRet(Collect(st, inst), inst) ELSE st,
              inst, isLast)

RECURSIVE SecondPass(_, _, _, _, _)
SecondPass(insts, i, starts, symbols, st) ==
    IF i > Len(insts) THEN st.functions
    ELSE SecondPass(insts, i + 1, starts, symbols,
                    BodyStep(IF insts[i].Address \in starts
                             THEN OpenAt(st, insts[i], symbols)
                             ELSE st,
                             insts[i], i = Len(insts)))

FindFunctions(insts, symbols) ==
    SecondPass(insts, 1, funcStarts(insts, symbols), symbols,
               [functions |-> <<>>, cur |-> <<>>])

-----------------------------------------------------------------------------
(* Control flow graphs (package cfg).                                      *)
(*                                                                         *)
(* A *BasicBlock is the position of the block in cfg.Blocks (Go index i is *)
(* position i+1) and Nil is the nil pointer; a block's ID is its Go index. *)

Nil == 0

(* the outcome of a loop that never ends *)
Diverges == -1

RangeOf(s) == {s[k] : k \in DOMAIN s}

IsControlFlow(inst) == inst.Category \in {CatCall, CatReturn, CatJump}

IsTerminator(inst) == inst.Category \in {CatReturn, CatJump, CatCall}

(* identifyLeaders: the addresses that start a block *)
identifyLeaders(fn) ==
    IF fn.Instructions = <<>> THEN {}
    ELSE {fn.Instructions[1].Address}
         \cup {fn.Instructions[i].BranchTarget :
                 i \in {j \in DOMAIN fn.Instructions :
                          /\ fn.Instructions[j].IsBranch
                          /\ fn.Instructions[j].BranchTarget # 0}}
         \cup {fn.Instructions[i + 1].Address :
                 i \in {j \in DOMAIN fn.Instructions :
                          /\ IsControlFlow(fn.Instructions[j])
                          /\ j < Len(fn.Instructions)
                          /\ \/ fn.Instructions[j].FallsThrough
                             \/ fn.Instructions[j].Category = CatCall}}

(* &BasicBlock{ID: id, StartAddr: addr, Instructions: []} *)
NewBlock(id, addr) ==
    [ID |-> id, StartAddr |-> addr, EndAddr |-> 0, Instructions |-> <<>>,
     Successors |-> <<>>, Predecessors |-> <<>>, IsEntry |-> FALSE,
     IsExit |-> FALSE, LoopHeader |-> Nil, DominatedBy |-> Nil]

(* createBasicBlocks keeps (blocks, currentBlock, blockID); cur is <<>>    *)
(* for a nil currentBlock and <<b>> otherwise.                             *)
(* `if leaders[inst.Address]`: the running block is stored, a new one opens *)
StartBlock(st, inst, leaders) ==
    IF inst.Address \in leaders
    THEN [blocks |-> IF st.cur # <<>> THEN Append(st.blocks, st.cur[1])
                     ELSE st.blocks,
          cur |-> <<NewBlock(st.blockID, inst.Address)>>,
          blockID |-> st.blockID + 1]
    ELSE st

(* currentBlock with inst appended and EndAddr moved *)
Grown(b, inst) ==
    [b EXCEPT !.Instructions = Append(@, inst), !.EndAddr = inst.Address]

(* `if currentBlock != nil`: the instruction joins the block, which ends   *)
(* after a terminator whose next instruction is a leader                   *)
AddToBlock(st, inst, endsHere) ==
    IF st.cur = <<>> THEN st
    ELSE IF endsHere
         THEN [st EXCEPT !.blocks = Append(@, Grown(st.cur[1], inst)),
                         !.cur = <<>>]
         ELSE [st EXCEPT !.cur = <<Grown(st.cur[1], inst)>>]

RECURSIVE BlocksFrom(_, _, _, _)
BlocksFrom(insts, i, leaders, st) ==
    IF i > Len(insts)
    THEN IF st.cur # <<>> THEN Append(st.blocks, st.cur[1]) ELSE st.blocks
    ELSE BlocksFrom(insts, i + 1, leaders,
                    AddToBlock(StartBlock(st, insts[i], leaders), insts[i],
                               /\ IsTerminator(insts[i])
                               /\ i < Len(insts)
                               /\ insts[i + 1].Address \in leaders))

(* what is left of the block list when only the leaders are kept *)
LeadersOnly(fn, leaders) ==
    BlocksFrom(SelectSeq(fn.Instructions, LAMBDA inst : inst.Address \in leaders),
               1, leaders, [blocks |-> <<>>, cur |-> <<>>, blockID |-> 0])

createBasicBlocks(fn, leaders) ==
    BlocksFrom(fn.Instructions, 1, leaders,
               [blocks |-> <<>>, cur |-> <<>>, blockID |-> 0])

(* cfg.BlockMap[addr]: the block that starts at addr, nil if there is none *)
BlockMap(blocks, addr) ==
    IF \E k \in DOMAIN blocks : blocks[k].StartAddr = addr
    THEN CHOOSE k \in DOMAIN blocks :
            /\ blocks[k].StartAddr = addr
            /\ \A j \in DOMAIN blocks : blocks[j].StartAddr = addr => j <= k
    ELSE Nil

(* bb.Successors gains succ, whatever bb.Successors and succ.Predecessors hold *)
AppendSuccessorOnly(blocks, bb, succ) ==
    [blocks EXCEPT ![bb].Successors = Append(@, succ)]

(* succ.Predecessors gains bb unless it is there *)
AddPredecessor(blocks, bb, succ) ==
    IF bb \in RangeOf(blocks[succ].Predecessors) THEN blocks
    ELSE [blocks EXCEPT ![succ].Predecessors = Append(@, bb)]

(* bb.AddSuccessor(succ) *)
AddSuccessor(blocks, bb, succ) ==
    IF succ \in RangeOf(blocks[bb].Successors) THEN blocks
    ELSE AddPredecessor([blocks EXCEPT ![bb].Successors = Append(@, succ)],
                        bb, succ)

(* `if target := cfg.BlockMap[lastInst.BranchTarget]; target != nil` *)
ConnectTarget(blocks, i, lastInst) ==
    IF BlockMap(blocks, lastInst.BranchTarget) # Nil
    THEN AddSuccessor(blocks, i, BlockMap(blocks, lastInst.BranchTarget))
    ELSE blocks

(* `if i+1 < len(cfg.Blocks)`: the fall-through edge *)
ConnectNext(blocks, i) ==
    IF i < Len(blocks) THEN AddSuccessor(blocks, i, i + 1) ELSE blocks

(* the switch on lastInst.Category *)
ConnectWith(blocks, i, lastInst) ==
    CASE lastInst.Category = CatJump /\ lastInst.IsConditional ->
           ConnectNext(ConnectTarget(blocks, i, lastInst), i)
      [] lastInst.Category = CatJump /\ ~lastInst.IsConditional ->
           ConnectTarget(blocks, i, lastInst)
      [] lastInst.Category = CatCall -> ConnectNext(blocks, i)
      [] lastInst.Category = CatReturn -> blocks
      [] OTHER -> ConnectNext(blocks, i)

RECURSIVE ConnectFrom(_, _)
ConnectFrom(blocks, i) ==
    IF i > Len(blocks) THEN blocks
    ELSE IF blocks[i].Instructions = <<>> THEN ConnectFrom(blocks, i + 1)
    ELSE ConnectFrom(ConnectWith(blocks, i,
                                 blocks[i].Instructions[Len(blocks[i].Instructions)]),
                     i + 1)

connectBlocks(blocks) == ConnectFrom(blocks, 1)

EndsWithReturn(b) ==
    b.Instructions # <<>> /\ b.Instructions[Len(b.Instructions)].Category = CatReturn

IsConditionalBranch(b) ==
    /\ b.Instructions # <<>>
    /\ b.Instructions[Len(b.Instructions)].IsConditional
    /\ b.Instructions[Len(b.Instructions)].IsBranch

(* BuildCFG step 4: IsEntry on Blocks[0], IsExit on the exit blocks *)
MarkEntryExit(blocks) ==
    [k \in DOMAIN blocks |->
        [blocks[k] EXCEPT
            !.IsEntry = (k = 1),
            !.IsExit = (EndsWithReturn(blocks[k]) \/ blocks[k].Successors = <<>>)]]

ExitBlocksOf(blocks) ==
    SelectSeq([k \in DOMAIN blocks |-> k], LAMBDA k : blocks[k].IsExit)

(* intersectDominators: the two fingers climb the DominatedBy links; the   *)
(* walk is deterministic over pairs of blocks, so one that has taken more  *)
(* steps than there are pairs never ends.                                  *)
RECURSIVE Fingers(_, _, _, _)
Fingers(blocks, finger1, finger2, left) ==
    IF finger1 = finger2 THEN finger1
    ELSE IF left = 0 THEN Diverges
    ELSE IF blocks[finger1].ID > blocks[finger2].ID
         THEN IF blocks[finger1].DominatedBy = Nil THEN finger2
              ELSE Fingers(blocks, blocks[finger1].DominatedBy, finger2, left - 1)
         ELSE IF blocks[finger2].DominatedBy = Nil THEN finger1
              ELSE Fingers(blocks, finger1, blocks[finger2].DominatedBy, left - 1)

intersectDominators(blocks, b1, b2) ==
    Fingers(blocks, b1, b2, Len(blocks) * Len(blocks))

(* the loop over block.Predecessors that yields newDom *)
RECURSIVE NewDom(_, _, _)
NewDom(blocks, preds, newDom) ==
    IF preds = <<>> \/ newDom = Diverges THEN newDom
    ELSE IF blocks[preds[1]].DominatedBy = Nil
         THEN NewDom(blocks, Tail(preds), newDom)
         ELSE IF newDom = Nil
              THEN NewDom(blocks, Tail(preds), blocks[preds[1]].DominatedBy)
              ELSE NewDom(blocks, Tail(preds),
                          intersectDominators(blocks, blocks[preds[1]].DominatedBy,
                                              newDom))

(* `if newDom != nil && newDom != block.DominatedBy` *)
SetDom(st, i, newDom) ==
    IF newDom = Diverges THEN [st EXCEPT !.diverged = TRUE]
    ELSE IF newDom # Nil /\ newDom # st.blocks[i].DominatedBy
         THEN [st EXCEPT !.blocks[i].DominatedBy = newDom, !.changed = TRUE]
         ELSE st

(* one pass over cfg.Blocks, the entry block skipped *)
RECURSIVE DomPass(_, _)
DomPass(st, i) ==
    IF i > Len(st.blocks) \/ st.diverged THEN st
    ELSE IF i = 1 THEN DomPass(st, i + 1)
    ELSE DomPass(SetDom(st, i, NewDom(st.blocks, st.blocks[i].Predecessors, Nil)),
                 i + 1)

(* `for changed && maxIterations > 0` *)
RECURSIVE DomLoop(_, _)
DomLoop(st, maxIterations) ==
    IF st.changed /\ maxIterations > 0 /\ ~st.diverged
    THEN DomLoop(DomPass([st EXCEPT !.changed = FALSE], 1), maxIterations - 1)
    ELSE st

(* no dominator is set *)
NoDominators(blocks) ==
    [blocks |-> blocks, changed |-> FALSE, diverged |-> FALSE]

(* computeDominators on a non-empty block list: entry first, then the loop *)
computeDominators(blocks) ==
    DomLoop([blocks |-> [blocks EXCEPT ![1].DominatedBy = 1],
             changed |-> TRUE, diverged |-> FALSE],
            Len(blocks) * Len(blocks))

EmptyCFG ==
    [Blocks |-> <<>>, EntryBlock |-> Nil, ExitBlocks |-> <<>>, diverged |-> FALSE]

CFGOf(st) ==
    [Blocks |-> st.blocks, EntryBlock |-> 1,
     ExitBlocks |-> ExitBlocksOf(st.blocks), diverged |-> st.diverged]

(* BuildCFG(fn); diverged tells that computeDominators did not return *)
BuildCFG(fn) ==
    IF fn.Instructions = <<>> THEN EmptyCFG
    ELSE CFGOf(computeDominators(MarkEntryExit(connectBlocks(
             createBasicBlocks(fn, identifyLeaders(fn))))))

(* bb.Dominates(target): "true", "false", or "hang" when the climb from    *)
(* target enters a cycle of DominatedBy links that does not hold bb        *)
RECURSIVE Climb(_, _, _, _)
Climb(blocks, bb, current, left) ==
    IF current = Nil THEN "false"
    ELSE IF current = bb THEN "true"
    ELSE IF left = 0 THEN "hang"
    ELSE Climb(blocks, bb, blocks[current].DominatedBy, left - 1)

Dominates(blocks, bb, target) == Climb(blocks, bb, target, Len(blocks))

-----------------------------------------------------------------------------
(* Natural loops (DetectLoops).                                            *)

(* the (block, succ) pairs in the order findBackEdges visits them *)
RECURSIVE EdgesFrom(_, _)
EdgesFrom(blocks, i) ==
    IF i > Len(blocks) THEN <<>>
    ELSE [k \in DOMAIN blocks[i].Successors |->
             [from |-> i, to |-> blocks[i].Successors[k]]]
         \o EdgesFrom(blocks, i + 1)

(* findBackEdges over the edges still to visit: the back edges found, and  *)
(* hung when a call of Dominates does not return                           *)
RECURSIVE BackEdgesOf(_, _, _)
BackEdgesOf(blocks, edges, found) ==
    IF edges = <<>> THEN [hung |-> FALSE, edges |-> found]
    ELSE IF Dominates(blocks, edges[1].to, edges[1].from) = "hang"
         THEN [hung |-> TRUE, edges |-> found]
         ELSE BackEdgesOf(blocks, Tail(edges),
                          IF Dominates(blocks, edges[1].to, edges[1].from) = "true"
                          THEN Append(found, edges[1])
                          ELSE found)

findBackEdges(blocks) == BackEdgesOf(blocks, EdgesFrom(blocks, 1), <<>>)

(* the worklist loop of constructLoop: the last element is popped *)
RECURSIVE LoopWalk(_, _, _, _)
LoopWalk(blocks, worklist, visited, members) ==
    IF worklist = <<>> THEN members
    ELSE IF worklist[Len(worklist)] \in visited
         THEN LoopWalk(blocks, SubSeq(worklist, 1, Len(worklist) - 1), visited,
                       members)
         ELSE LoopWalk(blocks,
                       SubSeq(worklist, 1, Len(worklist) - 1)
                       \o SelectSeq(blocks[worklist[Len(worklist)]].Predecessors,
                                    LAMBDA p : p \notin visited
                                               /\ p # worklist[Len(worklist)]),
                       visited \cup {worklist[Len(worklist)]},
                       Append(members, worklist[Len(worklist)]))

(* loop.Exits: the members with a successor outside the member set *)
LoopExits(blocks, members) ==
    SelectSeq(members,
              LAMBDA b : \E s \in RangeOf(blocks[b].Successors) :
                            s \notin RangeOf(members))

LoopOf(blocks, header, members) ==
    [Header |-> header, Blocks |-> members, Exits |-> LoopExits(blocks, members),
     Parent |-> Nil, Nested |-> <<>>]

(* a loop that holds its header alone *)
HeaderAlone(blocks, tail, header) == LoopOf(blocks, header, <<header>>)

constructLoop(blocks, tail, header) ==
    LoopOf(blocks, header, LoopWalk(blocks, <<tail>>, {header}, <<header>>))

(* `block.LoopHeader = loop.Header` for the members of each loop in turn *)
RECURSIVE MarkLoopHeaders(_, _)
MarkLoopHeaders(blocks, loopList) ==
    IF loopList = <<>> THEN blocks
    ELSE MarkLoopHeaders(
             [k \in DOMAIN blocks |->
                 IF k \in RangeOf(loopList[1].Blocks)
                 THEN [blocks[k] EXCEPT !.LoopHeader = loopList[1].Header]
                 ELSE blocks[k]],
             Tail(loopList))

(* loopContains(loop1, loop2) *)
loopContains(loop1, loop2) == RangeOf(loop2.Blocks) \subseteq RangeOf(loop1.Blocks)

(* buildLoopHierarchy's double loop, pair number k = i*n + j; a *Loop is   *)
(* the position of the loop in the list                                    *)
RECURSIVE Parents(_, _)
Parents(loopList, k) ==
    IF k >= Len(loopList) * Len(loopList) THEN loopList
    ELSE Parents(
             IF /\ (k \div Len(loopList)) # (k % Len(loopList))
                /\ loopContains(loopList[(k \div Len(loopList)) + 1],
                                loopList[(k % Len(loopList)) + 1])
                /\ \/ loopList[(k % Len(loopList)) + 1].Parent = Nil
                   \/ Len(loopList[(k \div Len(loopList)) + 1].Blocks)
                        < Len(loopList[loopList[(k % Len(loopList)) + 1].Parent].Blocks)
             THEN [loopList EXCEPT ![(k % Len(loopList)) + 1].Parent =
                                       (k \div Len(loopList)) + 1]
             ELSE loopList,
             k + 1)

(* `loop.Parent.Nested = append(loop.Parent.Nested, loop)` in list order *)
Nest(loopList) ==
    [p \in DOMAIN loopList |->
        [loopList[p] EXCEPT !.Nested =
            SelectSeq([k \in DOMAIN loopList |-> k],
                      LAMBDA k : loopList[k].Parent = p)]]

buildLoopHierarchy(loopList) ==
    IF loopList = <<>> THEN loopList ELSE Nest(Parents(loopList, 0))

(* Loop.GetDepth: the parents counted up from loop l; Diverges when the    *)
(* walk is still going after more steps than there are loops               *)
RECURSIVE DepthFrom(_, _, _, _)
DepthFrom(loopList, parent, depth, left) ==
    IF parent = Nil THEN depth
    ELSE IF left = 0 THEN Diverges
    ELSE DepthFrom(loopList, loopList[parent].Parent, depth + 1, left - 1)

GetDepth(loopList, l) ==
    DepthFrom(loopList, loopList[l].Parent, 0, Len(loopList))

(* DetectLoops(cfg) when findBackEdges returned edges *)
LoopsOfEdges(blocks, edges) ==
    buildLoopHierarchy([k \in DOMAIN edges |->
                           constructLoop(blocks, edges[k].from, edges[k].to)])

-----------------------------------------------------------------------------
(* Conditionals (DetectConditionals).                                      *)

CondIfThen == 0
CondIfThenElse == 1
CondSwitch == 2

(* findMergePoint, first search: everything reached from branch1 *)
RECURSIVE Visited1(_, _, _)
Visited1(blocks, queue, visited) ==
    IF queue = <<>> THEN visited
    ELSE IF queue[1] \in visited THEN Visited1(blocks, Tail(queue), visited)
    ELSE Visited1(blocks, Tail(queue) \o blocks[queue[1]].Successors,
                  visited \cup {queue[1]})

(* findMergePoint, second search: the first block taken from the queue     *)
(* that the first search reached and that is neither branch                *)
RECURSIVE Search2(_, _, _, _, _, _)
Search2(blocks, queue, visited2, visited1, branch1, branch2) ==
    IF queue = <<>> THEN Nil
    ELSE IF queue[1] \in visited2
         THEN Search2(blocks, Tail(queue), visited2, visited1, branch1, branch2)
    ELSE IF queue[1] \in visited1 /\ queue[1] # branch1 /\ queue[1] # branch2
         THEN queue[1]
    ELSE Search2(blocks, Tail(queue) \o blocks[queue[1]].Successors,
                 visited2 \cup {queue[1]}, visited1, branch1, branch2)

(* no merge point is ever found *)
NoMergePoint(blocks, branch1, branch2) == Nil

findMergePoint(blocks, branch1, branch2) ==
    Search2(blocks, <<branch2>>, {}, Visited1(blocks, <<branch1>>, {}),
            branch1, branch2)

(* &ConditionalStructure{...}; Type has the zero value CondIfThen unless set *)
Conditional(type, block, then, els, merge, cases) ==
    [Type |-> type, Condition |-> block, ThenBranch |-> then,
     ElseBranch |-> els, MergePoint |-> merge, CaseBlocks |-> cases]

(* analyzeIfElse once the merge point was looked for *)
IfElseWith(blocks, block, then, els, mergePoint) ==
    IF mergePoint # Nil
    THEN Conditional(CondIfThenElse, block, then, els, mergePoint, <<>>)
    ELSE IF blocks[els].Instructions = <<>> /\ Len(blocks[els].Successors) = 1
         THEN Conditional(CondIfThen, block, then, els,
                          blocks[els].Successors[1], <<>>)
    ELSE IF blocks[then].Instructions = <<>> /\ Len(blocks[then].Successors) = 1
         THEN Conditional(CondIfThen, block, then, els,
                          blocks[then].Successors[1], <<>>)
    ELSE Conditional(CondIfThen, block, then, els, Nil, <<>>)

(* analyzeIfElse(block), block with two successors *)
analyzeIfElse(blocks, block) ==
    IfElseWith(blocks, block, blocks[block].Successors[1],
               blocks[block].Successors[2],
               findMergePoint(blocks, blocks[block].Successors[1],
                              blocks[block].Successors[2]))

isCommonSuccessor(blocks, target, list) ==
    \A b \in RangeOf(list) : target \in RangeOf(blocks[b].Successors)

(* analyzeSwitch: the merge point is the single successor of the first     *)
(* case block whose single successor follows every case block              *)
RECURSIVE SwitchMerge(_, _, _)
SwitchMerge(blocks, cases, k) ==
    IF k > Len(cases) THEN Nil
    ELSE IF /\ Len(blocks[cases[k]].Successors) = 1
            /\ isCommonSuccessor(blocks, blocks[cases[k]].Successors[1], cases)
         THEN blocks[cases[k]].Successors[1]
         ELSE SwitchMerge(blocks, cases, k + 1)

analyzeSwitch(blocks, block) ==
    Conditional(CondSwitch, block, Nil, Nil,
                SwitchMerge(blocks, blocks[block].Successors, 1),
                blocks[block].Successors)

RECURSIVE ConditionalsFrom(_, _)
ConditionalsFrom(blocks, i) ==
    IF i > Len(blocks) THEN <<>>
    ELSE (IF ~IsConditionalBranch(blocks[i]) THEN <<>>
          ELSE IF Len(blocks[i].Successors) = 2 THEN <<analyzeIfElse(blocks, i)>>
          ELSE IF Len(blocks[i].Successors) > 2 THEN <<analyzeSwitch(blocks, i)>>
          ELSE <<>>)
         \o ConditionalsFrom(blocks, i + 1)

DetectConditionals(cfg) == ConditionalsFrom(cfg.Blocks, 1)

-----------------------------------------------------------------------------
(* The decompiler (Decompile).                                             *)

OpAssign == 0
OpCall == 1
OpReturn == 2
OpIf == 3
OpLoop == 4
OpCompare == 5
OpArithmetic == 6
OpMemoryAccess == 7

(* %d of a non-negative number *)
RECURSIVE Decimal(_)
Decimal(n) ==
    IF n < 10 THEN HexDigit(n) ELSE Decimal(n \div 10) \o HexDigit(n % 10)

(* strings.Split(str, ","), the part in progress starting at position from *)
RECURSIVE SplitFrom(_, _, _, _)
SplitFrom(str, i, from, parts) ==
    IF i > Len(str) THEN Append(parts, SubSeq(str, from, Len(str)))
    ELSE IF SubSeq(str, i, i) = ","
         THEN SplitFrom(str, i + 1, i + 1, Append(parts, SubSeq(str, from, i - 1)))
         ELSE SplitFrom(str, i + 1, from, parts)

SplitComma(str) == SplitFrom(str, 1, 1, <<>>)

(* strings.TrimSpace, for the blanks the decoders print *)
RECURSIVE TrimSpace(_)
TrimSpace(str) ==
    IF str = "" THEN str
    ELSE IF SubSeq(str, 1, 1) = " " THEN TrimSpace(SubSeq(str, 2, Len(str)))
    ELSE IF SubSeq(str, Len(str), Len(str)) = " "
         THEN TrimSpace(SubSeq(str, 1, Len(str) - 1))
    ELSE str

(* Operation{Address: inst.Address} with the fields a case sets *)
Operation(type, dest, src1, src2, operator, address, comment) ==
    [Type |-> type, Dest |-> dest, Src1 |-> src1, Src2 |-> src2,
     Operator |-> operator, Address |-> address, Comment |-> comment]

(* Variable{Name: varName, Register: dest, IsLocal: true} *)
Variable(name, register) ==
    [Name |-> name, Type |-> "", Register |-> register, Offset |-> 0,
     IsLocal |-> TRUE, IsParam |-> FALSE]

(* a name without its number *)
VarUnnumbered(n) == "var"

(* fmt.Sprintf("var%d", varCount) *)
VarName(n) == "var" \o Decimal(n)

(* regMap[key] = value *)
MapSet(m, key, value) ==
    [x \in DOMAIN m \cup {key} |-> IF x = key THEN value ELSE m[x]]

(* regMap[key], "" when the key is absent *)
MapGet(m, key) == IF key \in DOMAIN m THEN m[key] ELSE ""

(* Decompile keeps (regMap, varCount, df.Variables, df.Operations,         *)
(* df.HasReturn).                                                          *)
(* `if op.Type != 0 || op.Comment != ""`: the operation is appended *)
Emit(st, op) ==
    IF op.Type # 0 \/ op.Comment # ""
    THEN [st EXCEPT !.Operations = Append(@, op)]
    ELSE st

(* a fresh variable for dest: varCount++, regMap[dest] = varName *)
FreshVar(st, dest) ==
    [st EXCEPT !.regMap = MapSet(@, dest, VarName(st.varCount)),
               !.varCount = @ + 1]

(* case "mov" with the two operands dest and src *)
MovTwo(st, addr, dest, src) ==
    IF Contains(src, "rbp") \/ Contains(src, "rsp")
    THEN Emit([FreshVar(st, dest) EXCEPT
                  !.Variables = Append(@, Variable(VarName(st.varCount), dest))],
              Operation(OpAssign, VarName(st.varCount), src, "", "", addr, ""))
    ELSE IF Contains(dest, "rbp") \/ Contains(dest, "rsp")
    THEN Emit(st, IF src \in DOMAIN st.regMap
                  THEN Operation(OpAssign, "local", st.regMap[src], "", "", addr, "")
                  ELSE Operation(OpAssign, "", "", "", "", addr, ""))
    ELSE IF src \in DOMAIN st.regMap
    THEN Emit([st EXCEPT !.regMap = MapSet(@, dest, st.regMap[src])],
              Operation(OpAssign, dest, st.regMap[src], "", "", addr, ""))
    ELSE Emit(FreshVar(st, dest),
              Operation(OpAssign, VarName(st.varCount), src, "", "", addr, ""))

LiftMov(st, inst, parts) ==
    IF Len(parts) = 2
    THEN MovTwo(st, inst.Address, TrimSpace(parts[1]), TrimSpace(parts[2]))
    ELSE Emit(st, Operation(OpAssign, "", "", "", "", inst.Address, ""))

(* case "add", "sub", "mul", "imul", "div", "idiv" *)
LiftArith(st, inst, parts) ==
    IF Len(parts) = 2
    THEN Emit(st, Operation(OpArithmetic,
                            IF TrimSpace(parts[1]) \in DOMAIN st.regMap
                            THEN st.regMap[TrimSpace(parts[1])]
                            ELSE TrimSpace(parts[1]),
                            IF TrimSpace(parts[1]) \in DOMAIN st.regMap
                            THEN st.regMap[TrimSpace(parts[1])]
                            ELSE TrimSpace(parts[1]),
                            TrimSpace(parts[2]), inst.Mnemonic, inst.Address, ""))
    ELSE Emit(st, Operation(OpArithmetic, "", "", "", inst.Mnemonic,
                            inst.Address, ""))

(* case "cmp", "test" *)
LiftCompare(st, inst, parts) ==
    IF Len(parts) = 2
    THEN Emit(st, Operation(OpCompare, "", TrimSpace(parts[1]),
                            TrimSpace(parts[2]), "", inst.Address, ""))
    ELSE Emit(st, Operation(OpCompare, "", "", "", "", inst.Address, ""))

JumpMnemonics ==
    {"jmp", "je", "jne", "jg", "jge", "jl", "jle", "ja", "jb", "jbe", "jae"}

(* the switch on inst.Mnemonic for the instruction at position i *)
LiftInstruction(st, inst, i) ==
    CASE inst.Mnemonic = "push" ->
           IF inst.Operands = "rbp" /\ i = 1 THEN st
           ELSE Emit(st, Operation(OpAssign, "", "", "", "", inst.Address,
                                   "save " \o inst.Operands))
      [] inst.Mnemonic = "pop" ->
           IF inst.Operands = "rbp" THEN st
           ELSE Emit(st, Operation(OpAssign, "", "", "", "", inst.Address,
                                   "restore " \o inst.Operands))
      [] inst.Mnemonic = "mov" -> LiftMov(st, inst, SplitComma(inst.Operands))
      [] inst.Mnemonic = "call" ->
           Emit(st, Operation(OpCall, "result", inst.Operands, "", "",
                              inst.Address,
                              IF HasPrefix(inst.Operands, "0x")
                              THEN "call to " \o inst.Operands ELSE ""))
      [] inst.Mnemonic = "ret" ->
           Emit([st EXCEPT !.HasReturn = TRUE],
                Operation(OpReturn, "", MapGet(st.regMap, "rax"), "", "",
                          inst.Address, ""))
      [] inst.Mnemonic \in {"add", "sub", "mul", "imul", "div", "idiv"} ->
           LiftArith(st, inst, SplitComma(inst.Operands))
      [] inst.Mnemonic \in {"cmp", "test"} ->
           LiftCompare(st, inst, SplitComma(inst.Operands))
      [] inst.Mnemonic \in JumpMnemonics ->
           Emit(st, Operation(OpIf, "", inst.Operands, "", inst.Mnemonic,
                              inst.Address,
                              "conditional jump: " \o inst.Mnemonic))
      [] OTHER ->
           Emit(st, Operation(OpAssign, "", "", "", "", inst.Address,
                              inst.Mnemonic \o " " \o inst.Operands))

RECURSIVE LiftFrom(_, _, _)
LiftFrom(insts, i, st) ==
    IF i > Len(insts) THEN st
    ELSE LiftFrom(insts, i + 1, LiftInstruction(st, insts[i], i))

Decompiled(fn, st) ==
    [Function |-> fn, Variables |-> st.Variables, Operations |-> st.Operations,
     LocalVars |-> st.varCount, HasReturn |-> st.HasReturn]

Decompile(fn) ==
    Decompiled(fn, LiftFrom(fn.Instructions, 1,
                            [regMap |-> <<>>, varCount |-> 0, Variables |-> <<>>,
                             Operations |-> <<>>, HasReturn |-> FALSE]))

-----------------------------------------------------------------------------
(* Inputs.                                                                 *)

(* longest section of the exhaustive input class *)
MaxLen == 3

(* The bytes of the exhaustive class: prefixes (0x66, REX 0x45/0x48),      *)
(* ModR/M forms with every mod (0x00, 0x45, 0x83/0x89, 0xC3), the two-byte *)
(* escape, a short branch, JRCXZ, CALL, groups 1, 3 and 0xFF, VEX.         *)
SweepBytes ==
    {\h00, \h0F, \h45, \h48, \h66, \h74, \h83, \h89, \h94,
     \hC3, \hC4, \hE3, \hE8, \hF6, \hFF}

BoundedSeqs(S, n) == UNION {[1 .. k -> S] : k \in 0 .. n}

Sec(name, address, data, flags) ==
    [Name |-> name, Address |-> address, Data |-> data, Flags |-> flags]

(* prefixes put before the longer encodings *)
SomePrefixes == {<<>>, <<\h66>>, <<\h48>>, <<\h66, \hF3>>}

(* a 32-bit little-endian operand: 0x10 and -5 *)
SomeImm32 == {<<\h10, 0, 0, 0>>, <<\hFB, \hFF, \hFF, \hFF>>}

(* what follows the encoding in the section *)
SomeTails == {<<>>, <<\hC3>>}

(* Encodings longer than MaxLen: rel32 branches, far pointers, ModR/M      *)
(* forms with displacement and immediate, and the spec's scenarios.        *)
LongData ==
    {p \o <<op>> \o imm \o t :
        p \in SomePrefixes, op \in {\hE8, \hE9, \h05, \hA1}, imm \in SomeImm32,
        t \in SomeTails}
    \cup
    {p \o <<\h0F, op>> \o imm \o t :
        p \in SomePrefixes, op \in {\h84, \h8F}, imm \in SomeImm32,
        t \in SomeTails}
    \cup
    {p \o <<op>> \o imm \o <<\h23, \h00>> \o t :
        p \in SomePrefixes, op \in {\h9A, \hEA}, imm \in SomeImm32,
        t \in SomeTails}
    \cup
    {p \o <<op, modrm>> \o disp \o t :
        p \in SomePrefixes, op \in {\h89, \h8B, \h01, \h3B},
        modrm \in {\h45, \h85}, disp \in {<<8>>} \cup SomeImm32,
        t \in SomeTails \cup {<<\h90, \hC3>>}}
    \cup
    {<<op, modrm>> \o disp \o imm \o t :
        op \in {\h81, \hC7, \h69}, modrm \in {\h45, \h85, \hC0},
        disp \in {<<>>, <<8>>}, imm \in SomeImm32, t \in SomeTails}
    \cup
    {p \o <<op, rel>> \o t :
        p \in SomePrefixes \cup {<<\h66, \h66, \h66, \h66>>},
        op \in {\h74, \h7F, \hEB, \hE0, \hE1, \hE2, \hE3}, rel \in {5, \hFE},
        t \in SomeTails}
    \cup
    {<<\hF7, modrm>> \o t :
        modrm \in {\h00, \hC0, \hD8}, t \in {<<>>, <<\h10, 0>>, <<\h10, 0, 0, 0, \hC3>>}}
    \cup
    {<<\hC4, \hE2>> \o t : t \in {<<>>, <<\h79>>, <<\h79, \h18, \hC0, \hC3>>}}
    \cup
    {<<\hC8>> \o t : t \in {<<>>, <<\h10, 0>>, <<\h10, 0, 0>>, <<\h10, 0, 0, \hC3>>}}
    \cup
    {<<\h55, \h74, 0, \hC3>>,
     <<\h55, \hE8, \h10, 0, 0, 0, \hC3>>,
     <<\h55, \hE8, \h10, 0, 0, 0, \h55, \hC3>>,
     <<\h55, \hEB, 1, \h90, \hC3>>,
     <<\h55, \h70, 0, \hC3>>,
     <<\h55, \h89, \hC3, \hC3>>,
     <<\h55, \hE8, \h10, 0, 0, 0, \hFF, \hD0, \hC3, \h90, \hE8, \hFB, \hFF, \hFF, \hFF>>}

Scenarios ==
    {[arch |-> "x86_64", base |-> 4096, data |-> <<\h74, \h05>>],
     [arch |-> "x86_64", base |-> 8192, data |-> <<\hE8, \h10, 0, 0, 0>>],
     [arch |-> "x86_64", base |-> 12288,
      data |-> <<\h55, \h48, \h89, \hE5, \h48, \h83, \hEC, \h10, \hC3>>],
     [arch |-> "x86_64", base |-> 16384, data |-> <<\hFF>>],
     [arch |-> "x86", base |-> 16384, data |-> <<\hFF, \hC3>>]}

(* architecture tags the container adapter produces besides x86/x86_64 *)
OtherArchs == {"arm", "arm64"}

(* sections that are code by name or by flag, and sections that are not *)
CodeKinds == {<<".text", 0>>, <<"CODE", 0>>, <<".text", SHF_EXECINSTR>>,
              <<".init", SHF_EXECINSTR>>, <<"UPX0", IMAGE_SCN_MEM_EXECUTE>>}

DataKinds == {<<".data", 0>>, <<".rdata", 0>>}

(* Functions handed to the cfg and decompiler packages directly.           *)

(* longest instruction list of the exhaustive classes *)
MaxInsts == 3

(* address of the instruction at position i: one byte each from 0x1000 *)
AddrAt(i) == 4096 + (i - 1)

(* an instruction as the decoders fill it in *)
Ins(mn, ops, cat, cond, branch, target, falls) ==
    [ZeroInstruction EXCEPT !.Mnemonic = mn, !.Operands = ops, !.Size = 1,
                            !.Category = cat, !.IsConditional = cond,
                            !.IsBranch = branch, !.BranchTarget = target,
                            !.FallsThrough = falls]

Relative(mn, cat, target, cond, falls) ==
    Ins(mn, "0x" \o HexU64(target), cat, cond, TRUE, target, falls)

(* Control-flow shapes in a list of n instructions: nop, ret, a call out   *)
(* of the function, jmp and je to every instruction, a register-indirect   *)
(* jmp (no target), a je out of the function.                              *)
FlowShapes(n) ==
    {Ins("nop", "", CatNop, FALSE, FALSE, 0, FALSE),
     Ins("ret", "", CatReturn, FALSE, FALSE, 0, FALSE),
     Relative("call", CatCall, 8192, FALSE, TRUE),
     Ins("jmp", "", CatJump, FALSE, TRUE, 0, FALSE),
     Relative("je", CatJump, 8192, TRUE, TRUE)}
    \cup {Relative("jmp", CatJump, AddrAt(k), FALSE, FALSE) : k \in 1 .. n}
    \cup {Relative("je", CatJump, AddrAt(k), TRUE, TRUE) : k \in 1 .. n}

(* Data shapes: the mov forms Decompile tells apart, frame set-up and      *)
(* tear-down, arithmetic, a compare, a mnemonic it does not know.          *)
DataShapes ==
    {Ins("mov", ops, CatDataTransfer, FALSE, FALSE, 0, FALSE) :
        ops \in {"rax, [rbp+0x8]", "rbx, rax", "[rbp+0x8], rax", "rbp, rsp",
                 "rax, rbx"}}
    \cup {Ins("push", "rbp", CatStack, FALSE, FALSE, 0, FALSE),
          Ins("pop", "rbp", CatStack, FALSE, FALSE, 0, FALSE),
          Ins("sub", "rsp, 0x10", CatArithmetic, FALSE, FALSE, 0, FALSE),
          Ins("cmp", "rax, rbx", CatCompare, FALSE, FALSE, 0, FALSE),
          Ins("xor", "eax, eax", CatLogical, FALSE, FALSE, 0, FALSE),
          Ins("ret", "", CatReturn, FALSE, FALSE, 0, FALSE)}

(* the shapes placed at consecutive addresses *)
Placed(shapes) ==
    [i \in DOMAIN shapes |-> [shapes[i] EXCEPT !.Address = AddrAt(i)]]

(* a Function over an instruction list, as FindFunctions fills it in *)
FunctionOf(insts) ==
    [Name |-> "sub_1000", StartAddr |-> AddrAt(1),
     EndAddr |-> AddrAt(Len(insts)), Instructions |-> insts,
     Calls |-> [k \in DOMAIN SelectSeq(insts, LAMBDA x : x.Mnemonic = "call") |->
                  SelectSeq(insts, LAMBDA x : x.Mnemonic = "call")[k].Address]]

JrcxzTo(k) == Relative("jrcxz", CatJump, AddrAt(k), TRUE, FALSE)
JeTo(k) == Relative("je", CatJump, AddrAt(k), TRUE, TRUE)
JmpTo(k) == Relative("jmp", CatJump, AddrAt(k), FALSE, FALSE)
Nop == Ins("nop", "", CatNop, FALSE, FALSE, 0, FALSE)
Ret == Ins("ret", "", CatReturn, FALSE, FALSE, 0, FALSE)

(* Longer lists: the if/else diamond, a loop with an exit, two nested      *)
(* loops, a jrcxz (conditional that is not marked as falling through), a   *)
(* conditional as the last instruction, a block no path reaches, two      *)
(* blocks of one cycle that both branch back to the entry.                 *)
LongFlows ==
    {<<JeTo(3), JmpTo(4), Nop, Ret>>,
     <<JeTo(3), Nop, Nop, Ret>>,
     <<Nop, JeTo(4), JmpTo(2), Ret>>,
     <<Nop, Nop, JeTo(2), JeTo(1), Ret>>,
     <<JrcxzTo(3), Nop, Nop, Ret>>,
     <<JeTo(1), JeTo(2), JeTo(4), JmpTo(1)>>,
     <<Nop, JmpTo(4), Nop, JeTo(3)>>,
     <<JmpTo(3), JeTo(2), JeTo(5), Nop, Ret>>,
     <<JeTo(3), JeTo(1), JeTo(1), JmpTo(2)>>}

(* the lists of shapes the functions are made of, before they are placed *)
LiftShapes ==
    UNION {[1 .. n -> FlowShapes(n)] : n \in 1 .. MaxInsts}
    \cup (BoundedSeqs(DataShapes, MaxInsts) \ {<<>>})
    \cup LongFlows

(* Instruction lists handed to FindFunctions directly.                     *)

(* parser.Symbol{Name: name, Address: address} *)
Symbol(name, address) ==
    [Name |-> name, Address |-> address, Size |-> 0, Type |-> ""]

(* an instruction of size bytes *)
Sized(inst, size) == [inst EXCEPT !.Size = size]

Int3 == Ins("int", "3", CatInterrupt, FALSE, FALSE, 0, FALSE)
PushRbp == Ins("push", "rbp", CatStack, FALSE, FALSE, 0, FALSE)
SubRsp == Sized(Ins("sub", "rsp, 0x10", CatArithmetic, FALSE, FALSE, 0, FALSE), 4)
CallOut == Sized(Relative("call", CatCall, 8192, FALSE, TRUE), 5)
Unknown06 == Ins("unk_06", "", CatUnknown, FALSE, FALSE, 0, FALSE)

(* What the two passes of FindFunctions tell apart: padding (nop, int 3),  *)
(* ret, the prologues push rbp and sub rsp, a call, an undecoded byte.     *)
BoundaryShapes == {Nop, Ret, Int3, PushRbp, SubRsp, CallOut, Unknown06}

(* k copies of inst *)
Run(inst, k) == [i \in 1 .. k |-> inst]

(* Longer lists: runs of nops around the length isPaddingOrData asks for,  *)
(* after a ret and before a prologue, and a push rbp in front of padding.  *)
LongStreams ==
    {Run(Nop, 5) \o <<Ret>>,
     Run(Nop, 6) \o <<Ret>>,
     Run(Nop, 7),
     <<PushRbp, Ret>> \o Run(Nop, 6) \o <<PushRbp, Ret>>,
     <<PushRbp>> \o Run(Nop, 3) \o <<Ret>>,
     <<PushRbp, Int3, Int3, Nop, SubRsp, Ret>>}

(* total size of the instructions before position i *)
RECURSIVE SizeBefore(_, _)
SizeBefore(shapes, i) ==
    IF i <= 1 THEN 0 ELSE SizeBefore(shapes, i - 1) + shapes[i - 1].Size

(* the shapes placed one after the other from 0x1000 *)
PlacedBySize(shapes) ==
    [i \in DOMAIN shapes |->
        [shapes[i] EXCEPT !.Address = 4096 + SizeBefore(shapes, i)]]

(* the lists of shapes FindFunctions is given, before they are placed *)
FindStreams == BoundedSeqs(BoundaryShapes, MaxInsts) \cup LongStreams

(* Symbol tables for a list: none, one named symbol at an instruction, an  *)
(* unnamed symbol, a named symbol between instructions, and two symbols    *)
(* (one address twice, or the second and the last instruction).            *)
SymbolTables(insts) ==
    {<<>>}
    \cup {<<Symbol("main", insts[i].Address)>> : i \in DOMAIN insts}
    \cup {<<Symbol("", insts[i].Address)>> : i \in DOMAIN insts \cap {1}}
    \cup {<<Symbol("mid", insts[i].Address + 1)>> : i \in DOMAIN insts \cap {1}}
    \cup {<<Symbol("main", insts[i].Address), Symbol("alias", insts[i].Address)>> :
             i \in DOMAIN insts \cap {2}}
    \cup {<<Symbol("last", insts[Len(insts)].Address), Symbol("main", insts[i].Address)>> :
             i \in DOMAIN insts \cap {2}}

(* Sections of binaries that carry symbols: six nops and a ret, and two    *)
(* functions of which the first ends in a five-byte call.                  *)
SymbolData ==
    {<<\h90, \h90, \h90, \h90, \h90, \h90, \hC3>>,
     <<\h55, \hE8, \h10, 0, 0, 0, \h55, \hC3>>}

SectionSymbols ==
    {<<Symbol("main", 4097)>>, <<Symbol("main", 4096), Symbol("helper", 4102)>>}

-----------------------------------------------------------------------------
(* The state machine.                                                      *)

NoDecode ==
    [at |-> -1,
     enh |-> [panic |-> FALSE, size |-> 0, inst |-> ZeroInstruction],
     fallback |-> FALSE,
     fb |-> SimpleFail]

NotReturned == [done |-> FALSE, err |-> "", functions |-> <<>>]

NoFunction == NewFunction("", 0)

NotDecompiled ==
    [Function |-> NoFunction, Variables |-> <<>>, Operations |-> <<>>,
     LocalVars |-> 0, HasReturn |-> FALSE]

NoEdge == [tail |-> Nil, header |-> Nil]

InitBinary(a, sec, syms) ==
    /\ arch = a
    /\ section = sec
    /\ binarySymbols = syms
    /\ pc = "Analyze"
    /\ offset = 0
    /\ instructions = <<>>
    /\ skipped = 0
    /\ last = NoDecode
    /\ sweepErr = ""
    /\ analyzeRet = NotReturned
    /\ func = NoFunction
    /\ lpc = "idle"
    /\ graph = EmptyCFG
    /\ loops = <<>>
    /\ conds = <<>>
    /\ df = NotDecompiled
    /\ edge = NoEdge

(* a stripped binary: no symbols *)
InitWith(a, sec) == InitBinary(a, sec, <<>>)

Init ==
    \/ \E a \in {"x86", "x86_64"}, d \in BoundedSeqs(SweepBytes, MaxLen) :
          InitWith(a, Sec(".text", 4096, d, 0))
    \/ \E a \in {"x86", "x86_64"}, d \in LongData :
          InitWith(a, Sec(".text", 4096, d, 0))
    \/ \E s \in Scenarios : InitWith(s.arch, Sec(".text", s.base, s.data, 0))
    \/ \E a \in OtherArchs \cup {"x86_64"}, k \in CodeKinds \cup DataKinds,
          d \in {<<>>, <<\hC3>>, <<\h55, \hC3>>} :
          InitWith(a, Sec(k[1], 4096, d, k[2]))
    \/ \E d \in SymbolData, syms \in SectionSymbols :
          InitBinary("x86_64", Sec(".text", 4096, d, 0), syms)

(* disassembleCode: the section is not code, the loop skips it and         *)
(* Analyze returns the analysis with a nil error.                          *)
SkipSection ==
    /\ pc = "Analyze"
    /\ ~IsCodeSection(section)
    /\ pc' = "returned"
    /\ analyzeRet' = [done |-> TRUE, err |-> "", functions |-> <<>>]
    /\ UNCHANGED <<lift, binarySymbols>>
    /\ UNCHANGED <<arch, section, offset, instructions, skipped, last, sweepErr>>

(* DisassembleSection returns `unsupported architecture`; disassembleCode  *)
(* returns that error; Analyze only prints it (when verbose) and returns   *)
(* (analysis, nil).                                                        *)
RejectArch ==
    /\ pc = "Analyze"
    /\ IsCodeSection(section)
    /\ ~SupportedArch(arch)
    /\ sweepErr' = "unsupported architecture"
    /\ pc' = "returned"
    /\ analyzeRet' = [done |-> TRUE, err |-> "", functions |-> <<>>]
    /\ UNCHANGED <<lift, binarySymbols>>
    /\ UNCHANGED <<arch, section, offset, instructions, skipped, last>>

(* DisassembleSection: the Capstone stub has failed, the architecture is   *)
(* accepted, offset := 0.                                                  *)
EnterSweep ==
    /\ pc = "Analyze"
    /\ IsCodeSection(section)
    /\ SupportedArch(arch)
    /\ pc' = "sweep"
    /\ offset' = 0
    /\ instructions' = <<>>
    /\ skipped' = 0
    /\ UNCHANGED <<lift, binarySymbols>>
    /\ UNCHANGED <<arch, section, last, sweepErr, analyzeRet>>

(* The loop body without its last resort: decodeInstruction is never asked. *)
IterationWithoutOldDecoder(off, input, addr, enh) ==
    [at |-> off,
     enh |-> enh,
     fallback |-> (~enh.panic /\ enh.size = 0),
     fb |-> SimpleFail]

(* The decoders' results for one loop iteration at the current offset. *)
Iteration(off, input, addr, enh) ==
    [at |-> off,
     enh |-> enh,
     fallback |-> (~enh.panic /\ enh.size = 0),
     fb |-> IF ~enh.panic /\ enh.size = 0
            THEN decodeInstruction(input, addr, arch)
            ELSE SimpleFail]

DecodeAt(off) ==
    Iteration(off, SliceFrom(section.Data, off), section.Address + off,
              EnhancedDecodeInstruction(SliceFrom(section.Data, off),
                                        section.Address + off, arch))

(* loop body: EnhancedDecodeInstruction panics (index out of range) *)
PanicWith(r) ==
    /\ r.enh.panic
    /\ last' = r
    /\ pc' = "panicked"
    /\ UNCHANGED <<lift, binarySymbols>>
    /\ UNCHANGED <<arch, section, offset, instructions, skipped, sweepErr, analyzeRet>>

SweepPanic ==
    /\ pc = "sweep"
    /\ offset < Len(section.Data)
    /\ PanicWith(DecodeAt(offset))

(* loop body: the enhanced decoder returns size != 0 *)
AppendEnhancedWith(r) ==
    /\ ~r.enh.panic
    /\ r.enh.size # 0
    /\ last' = r
    /\ instructions' = Append(instructions, r.enh.inst)
    /\ offset' = offset + r.enh.size
    /\ UNCHANGED <<lift, binarySymbols>>
    /\ UNCHANGED <<arch, section, pc, skipped, sweepErr, analyzeRet>>

SweepAppendEnhanced ==
    /\ pc = "sweep"
    /\ offset < Len(section.Data)
    /\ AppendEnhancedWith(DecodeAt(offset))

(* loop body: the enhanced decoder returns 0, the old decoder does not *)
AppendFallbackWith(r) ==
    /\ r.fallback
    /\ r.fb.size # 0
    /\ last' = r
    /\ instructions' = Append(instructions, r.fb.inst)
    /\ offset' = offset + r.fb.size
    /\ UNCHANGED <<lift, binarySymbols>>
    /\ UNCHANGED <<arch, section, pc, skipped, sweepErr, analyzeRet>>

SweepAppendFallback ==
    /\ pc = "sweep"
    /\ offset < Len(section.Data)
    /\ AppendFallbackWith(DecodeAt(offset))

(* loop body: both decoders return 0: offset++ *)
SkipByteWith(r) ==
    /\ r.fallback
    /\ r.fb.size = 0
    /\ last' = r
    /\ offset' = offset + 1
    /\ skipped' = skipped + 1
    /\ UNCHANGED <<lift, binarySymbols>>
    /\ UNCHANGED <<arch, section, pc, instructions, sweepErr, analyzeRet>>

SweepSkipByte ==
    /\ pc = "sweep"
    /\ offset < Len(section.Data)
    /\ SkipByteWith(DecodeAt(offset))

(* loop exit: DisassembleSection returns fallbackInstructions, nil *)
SweepReturn ==
    /\ pc = "sweep"
    /\ offset >= Len(section.Data)
    /\ pc' = "swept"
    /\ UNCHANGED <<lift, binarySymbols>>
    /\ UNCHANGED <<arch, section, offset, instructions, skipped, last, sweepErr,
                   analyzeRet>>

(* disassembleCode appends FindFunctions(instructions, a.Binary.Symbols),   *)
(* returns nil, and Analyze returns (analysis, nil)                        *)
AnalyzeReturn ==
    /\ pc = "swept"
    /\ pc' = "returned"
    /\ analyzeRet' = [done |-> TRUE, err |-> "",
                      functions |-> FindFunctions(instructions, binarySymbols)]
    /\ UNCHANGED <<lift, binarySymbols>>
    /\ UNCHANGED <<arch, section, offset, instructions, skipped, last, sweepErr>>

(* The caller takes one of the functions Analyze returned. *)
PickFunction ==
    /\ pc = "returned"
    /\ lpc = "idle"
    /\ \E k \in DOMAIN analyzeRet.functions : func' = analyzeRet.functions[k]
    /\ lpc' = "picked"
    /\ UNCHANGED <<graph, loops, conds, df, edge>>
    /\ UNCHANGED sweep

(* cfg.BuildCFG(&fn) *)
BuildWith(g) ==
    /\ graph' = g
    /\ lpc' = IF g.diverged THEN "buildHung" ELSE "built"
    /\ UNCHANGED <<func, loops, conds, df, edge>>
    /\ UNCHANGED sweep

BuildCFGStep ==
    /\ lpc = "picked"
    /\ BuildWith(BuildCFG(func))

(* cfg.DetectLoops(cfg) returns: the loops, LoopHeader set on their members *)
LoopsWith(r) ==
    /\ ~r.hung
    /\ loops' = LoopsOfEdges(graph.Blocks, r.edges)
    /\ graph' = [graph EXCEPT !.Blocks = MarkLoopHeaders(@, loops')]
    /\ lpc' = "loops"
    /\ UNCHANGED <<func, conds, df, edge>>
    /\ UNCHANGED sweep

DetectLoopsReturn ==
    /\ lpc = "built"
    /\ LoopsWith(findBackEdges(graph.Blocks))

(* cfg.DetectLoops(cfg) does not return: a Dominates call loops for ever *)
DetectLoopsHang ==
    /\ lpc = "built"
    /\ findBackEdges(graph.Blocks).hung
    /\ lpc' = "loopsHung"
    /\ UNCHANGED <<func, graph, loops, conds, df, edge>>
    /\ UNCHANGED sweep

(* constructLoop(tail, header) on two blocks of the graph *)
ConstructLoopStep ==
    /\ lpc = "built"
    /\ \E tail \in DOMAIN graph.Blocks, header \in DOMAIN graph.Blocks :
          /\ loops' = <<constructLoop(graph.Blocks, tail, header)>>
          /\ edge' = [tail |-> tail, header |-> header]
    /\ lpc' = "loop"
    /\ UNCHANGED <<func, graph, conds, df>>
    /\ UNCHANGED sweep

(* the elements of list at the positions in chosen, in the order of list *)
Picked(list, chosen) ==
    [k \in DOMAIN SelectSeq([p \in DOMAIN list |-> p], LAMBDA p : p \in chosen) |->
        list[SelectSeq([p \in DOMAIN list |-> p], LAMBDA p : p \in chosen)[k]]]

(* The edge lists DetectLoops can build its loops from: two or three of    *)
(* the graph's edges in the order findBackEdges visits them, whichever of  *)
(* them the dominance test lets through.                                   *)
LoopCalls(blocks) ==
    {Picked(EdgesFrom(blocks, 1), chosen) :
        chosen \in {c \in SUBSET DOMAIN EdgesFrom(blocks, 1) :
                       Cardinality(c) \in {2, 3}}}

(* DetectLoops from its first loop on: constructLoop for each edge, then   *)
(* buildLoopHierarchy(loops)                                               *)
BuildLoopHierarchyStep ==
    /\ lpc = "built"
    /\ \E calls \in LoopCalls(graph.Blocks) :
          loops' = LoopsOfEdges(graph.Blocks, calls)
    /\ lpc' = "hierarchy"
    /\ UNCHANGED <<func, graph, conds, df, edge>>
    /\ UNCHANGED sweep

(* cfg.DetectConditionals(graph) *)
DetectConditionalsStep ==
    /\ lpc = "built"
    /\ conds' = DetectConditionals(graph)
    /\ lpc' = "conds"
    /\ UNCHANGED <<func, graph, loops, df, edge>>
    /\ UNCHANGED sweep

(* decompiler.Decompile(func) *)
DecompileStep ==
    /\ lpc = "picked"
    /\ df' = Decompile(func)
    /\ lpc' = "decompiled"
    /\ UNCHANGED <<func, graph, loops, conds, edge>>
    /\ UNCHANGED sweep


Next ==
    \/ SkipSection
    \/ RejectArch
    \/ EnterSweep
    \/ SweepPanic
    \/ SweepAppendEnhanced
    \/ SweepAppendFallback
    \/ SweepSkipByte
    \/ SweepReturn
    \/ AnalyzeReturn
    \/ PickFunction
    \/ BuildCFGStep
    \/ DetectLoopsReturn
    \/ DetectLoopsHang
    \/ ConstructLoopStep
    \/ BuildLoopHierarchyStep
    \/ DetectConditionalsStep
    \/ DecompileStep

Spec == Init /\ [][Next]_vars

(* The pipeline is one synchronous call: a step that can be taken is taken. *)
FairSpec == Spec /\ WF_vars(Next)

(* The cfg and decompiler packages called on a function of the caller's.   *)
LiftInit ==
    /\ arch = "x86_64"
    /\ section = Sec(".text", 4096, <<>>, 0)
    /\ pc = "library"
    /\ offset = 0
    /\ instructions = <<>>
    /\ skipped = 0
    /\ last = NoDecode
    /\ sweepErr = ""
    /\ analyzeRet = NotReturned
    /\ binarySymbols = <<>>
    /\ \/ \E s \in LiftShapes : func = FunctionOf(Placed(s))
       \/ func = NewFunction("empty", 0)
    /\ lpc = "picked"
    /\ graph = EmptyCFG
    /\ loops = <<>>
    /\ conds = <<>>
    /\ df = NotDecompiled
    /\ edge = NoEdge

LiftNext ==
    \/ BuildCFGStep
    \/ DetectLoopsReturn
    \/ DetectLoopsHang
    \/ ConstructLoopStep
    \/ BuildLoopHierarchyStep
    \/ DetectConditionalsStep
    \/ DecompileStep

LiftSpec == LiftInit /\ [][LiftNext]_vars

(* disasm.FindFunctions called on an instruction list of the caller's. *)
FindInit ==
    /\ arch = "x86_64"
    /\ section = Sec(".text", 4096, <<>>, 0)
    /\ pc = "library"
    /\ offset = 0
    /\ \E s \in FindStreams :
          /\ instructions = PlacedBySize(s)
          /\ binarySymbols \in SymbolTables(PlacedBySize(s))
    /\ skipped = 0
    /\ last = NoDecode
    /\ sweepErr = ""
    /\ analyzeRet = NotReturned
    /\ func = NoFunction
    /\ lpc = "find"
    /\ graph = EmptyCFG
    /\ loops = <<>>
    /\ conds = <<>>
    /\ df = NotDecompiled
    /\ edge = NoEdge

(* disasm.FindFunctions(instructions, binarySymbols) *)
FindFunctionsStep ==
    /\ lpc = "find"
    /\ analyzeRet' = [done |-> TRUE, err |-> "",
                      functions |-> FindFunctions(instructions, binarySymbols)]
    /\ lpc' = "found"
    /\ UNCHANGED <<arch, section, pc, offset, instructions, skipped, last, sweepErr,
                   binarySymbols, func, graph, loops, conds, df, edge>>

FindNext == FindFunctionsStep

FindSpec == FindInit /\ [][FindNext]_vars

-----------------------------------------------------------------------------
(* Properties.  They read the latest loop iteration (last), the list built *)
(* so far, and what Analyze returned.                                      *)

(* the slice handed to the decoders in the latest iteration: data[offset:] *)
Input == SliceFrom(section.Data, last.at)

(* the address handed to the decoders in the latest iteration *)
InputAddr == section.Address + last.at

(* an iteration has run *)
Tried == last.at >= 0

(* ... and EnhancedDecodeInstruction returned size != 0 *)
Succeeded == Tried /\ ~last.enh.panic /\ last.enh.size # 0

(* the instruction it returned *)
Inst == last.enh.inst

(* number of prefix bytes of Input, and the opcode byte after them *)
PrefixLen == ScanPrefixes(Input, 0, arch = "x86_64").offset
HasOpcode == Tried /\ PrefixLen < Len(Input)
Opcode == Input[PrefixLen + 1]

(* the byte after the opcode: ModR/M, rel8 or the second opcode byte *)
HasSecond == HasOpcode /\ PrefixLen + 1 < Len(Input)
Second == Input[PrefixLen + 2]

(* forms with a ModR/M byte named by the specification: MOV 0x88-0x8B,     *)
(* the 0x00-0x3B arithmetic block, group 1                                 *)
ModRMOpcodes ==
    (\h88 .. \h8B) \cup {op \in 0 .. \h3B : op % 8 \in 0 .. 3} \cup (\h80 .. \h83)

(* displacement bytes by the mod field *)
DispLen(modrm) ==
    CASE ModOf(modrm) = 1 -> 1
      [] ModOf(modrm) = 2 -> 4
      [] OTHER -> 0

(* immediate bytes: group 1 (imm8, imm32) and group 3 TEST (imm8, imm32) *)
ImmLen(op, modrm) ==
    CASE op \in {\h80, \h82, \h83} -> 1
      [] op = \h81 -> 4
      [] op = \hF6 /\ RegOf(modrm) \in {0, 1} -> 1
      [] op = \hF7 /\ RegOf(modrm) \in {0, 1} -> 4
      [] OTHER -> 0

(* prefixes + opcode + ModR/M + displacement + immediate *)
ModRMLength == PrefixLen + 2 + DispLen(Second) + ImmLen(Opcode, Second)

ShortJumps == (\h70 .. \h7F) \cup {\hEB} \cup (\hE0 .. \hE3)

(* bytes the encoding that starts Input needs, for the forms above, group  *)
(* 3 and the relative branches                                             *)
NeededLength ==
    CASE Opcode \in ModRMOpcodes \cup {\hF6, \hF7} ->
           IF HasSecond THEN ModRMLength ELSE PrefixLen + 2
      [] Opcode \in ShortJumps -> PrefixLen + 2
      [] Opcode \in {\hE8, \hE9} -> PrefixLen + 5
      [] OTHER -> PrefixLen + 1

(* the list DisassembleSection is building or has returned *)
InSweep == pc \in {"sweep", "swept", "returned"} /\ SupportedArch(arch)
Swept == pc \in {"swept", "returned"} /\ SupportedArch(arch) /\ IsCodeSection(section)

RECURSIVE SumSizes(_)
SumSizes(insts) ==
    IF insts = <<>> THEN 0 ELSE insts[1].Size + SumSizes(Tail(insts))

(* C1: whenever EnhancedDecodeInstruction reports success, the size is     *)
(* positive, at most the length of the input slice, and equal to the       *)
(* length of the returned Bytes.                                           *)
C1_SizeMatchesBytes ==
    Succeeded =>
        /\ last.enh.size > 0
        /\ last.enh.size <= Len(Input)
        /\ last.enh.size = Len(Inst.Bytes)

(* C2: for a form with a ModR/M byte the returned size counts the          *)
(* displacement (one byte with mod=1, four with mod=2) and the immediate,  *)
(* and the sweep's next decode starts right after them.                    *)
C2_SizeCountsDisplacement ==
    (Succeeded /\ Opcode \in ModRMOpcodes /\ Len(Input) >= ModRMLength) =>
        /\ last.enh.size = ModRMLength
        /\ InSweep => offset = last.at + ModRMLength

(* C3: on the empty slice, and on a slice that ends before the bytes its   *)
(* encoding needs, EnhancedDecodeInstruction returns normally with size 0: *)
(* no panic, no non-zero size.                                             *)
C3_TruncatedReturnsZero ==
    /\ \A a \in {"x86", "x86_64"} :
          /\ ~EnhancedDecodeInstruction(<<>>, 4096, a).panic
          /\ EnhancedDecodeInstruction(<<>>, 4096, a).size = 0
    /\ (HasOpcode /\ Len(Input) < NeededLength) =>
          /\ ~last.enh.panic
          /\ last.enh.size = 0

(* C4: in the list the sweep returns, addresses strictly increase, no      *)
(* instruction overlaps the next, none reaches past the end of the         *)
(* section, and with no byte skipped the sizes sum to the section length.  *)
C4_SweepSizesAreAdvances ==
    Swept =>
        /\ \A i \in 1 .. Len(instructions) - 1 :
              /\ instructions[i + 1].Address > instructions[i].Address
              /\ instructions[i + 1].Address
                    >= instructions[i].Address + instructions[i].Size
        /\ \A i \in 1 .. Len(instructions) :
              instructions[i].Address + instructions[i].Size
                  <= section.Address + Len(section.Data)
        /\ skipped = 0 => SumSizes(instructions) = Len(section.Data)

(* C5: the sweep terminates normally: every iteration moves the offset     *)
(* forward (so that it ends at offset >= section length), and the call is  *)
(* always either still running or returned, never aborted.                 *)
C5_SweepTerminates ==
    /\ (Tried /\ SupportedArch(arch)) =>
          /\ offset > last.at
          /\ offset <= last.at + Len(Input) \/ pc # "returned"
    /\ pc \in {"Analyze", "sweep", "swept", "returned"}

C7_BranchTarget ==
    /\ (Succeeded /\ Opcode \in ShortJumps) =>
          Inst.BranchTarget = Inst.Address + Inst.Size + Int8(Second)
    /\ (Succeeded /\ Opcode \in {\hE8, \hE9}) =>
          Inst.BranchTarget
              = Inst.Address + Inst.Size + Int32LE(Input, PrefixLen + 1)
    /\ (Tried /\ InputAddr = 4096 /\ Input = <<\h74, \h05>>) =>
          Succeeded /\ Inst.Size = 2 /\ Inst.BranchTarget = 4103
    /\ (Tried /\ InputAddr = 8192 /\ Input = <<\hE8, \h10, 0, 0, 0>>) =>
          Succeeded /\ Inst.Size = 5 /\ Inst.BranchTarget = 8213

(* C8: a decoded instruction has IsConditional exactly when it is a Jcc    *)
(* (0x70-0x7F, 0x0F 0x80-0x8F), SETcc (0x0F 0x90-0x9F), CMOVcc (0x0F       *)
(* 0x40-0x4F) or JRCXZ (0xE3).                                             *)
C8_ConditionalFamilies ==
    Succeeded =>
        (Inst.IsConditional <=>
            \/ Opcode \in \h70 .. \h7F
            \/ Opcode = \hE3
            \/ /\ Opcode = \h0F
               /\ HasSecond
               /\ Second \in (\h80 .. \h8F) \cup (\h90 .. \h9F) \cup (\h40 .. \h4F))

(* C9: a decoded conditional jump or call has FallsThrough; a decoded      *)
(* unconditional jump or return has not.                                   *)
C9_FallsThrough ==
    Succeeded =>
        /\ (Inst.Category = CatJump /\ Inst.IsConditional) => Inst.FallsThrough
        /\ Inst.Category = CatCall => Inst.FallsThrough
        /\ (Inst.Category = CatJump /\ ~Inst.IsConditional) => ~Inst.FallsThrough
        /\ Inst.Category = CatReturn => ~Inst.FallsThrough

(* C10: with an architecture other than x86 / x86_64 and an executable     *)
(* section, Analyze returns an error.                                      *)
C10_UnsupportedArchFails ==
    (analyzeRet.done /\ ~SupportedArch(arch) /\ IsCodeSection(section)) =>
        analyzeRet.err # ""

-----------------------------------------------------------------------------
(* Properties of the graph, the loops, the conditionals and the lifted     *)
(* form.  They read func and what the calls on it returned.                *)

(* BuildCFG has returned and graph holds its result *)
HasGraph == lpc \in {"built", "loops", "loopsHung", "loop", "hierarchy", "conds"}

Blocks == graph.Blocks

StrictlyIncreasing(insts) ==
    \A i \in 1 .. Len(insts) - 1 : insts[i].Address < insts[i + 1].Address

(* the blocks' instruction lists one after the other *)
RECURSIVE Concatenation(_)
Concatenation(blocks) ==
    IF blocks = <<>> THEN <<>>
    ELSE blocks[1].Instructions \o Concatenation(Tail(blocks))

NoDuplicates(s) == \A i, j \in DOMAIN s : s[i] = s[j] => i = j

(* C11: for a function whose instructions are in strictly increasing       *)
(* address order the blocks BuildCFG made partition the instruction list:  *)
(* concatenated in order they give the list back (so every instruction is  *)
(* in exactly one block), each block is a non-empty run that starts at     *)
(* StartAddr and ends at EndAddr, the blocks are in increasing StartAddr   *)
(* order and their IDs are 0..n-1.                                         *)
C11_BlocksPartition ==
    (HasGraph /\ StrictlyIncreasing(func.Instructions)) =>
        /\ Concatenation(Blocks) = func.Instructions
        /\ \A k \in DOMAIN Blocks :
              /\ Blocks[k].Instructions # <<>>
              /\ Blocks[k].StartAddr = Blocks[k].Instructions[1].Address
              /\ Blocks[k].EndAddr =
                    Blocks[k].Instructions[Len(Blocks[k].Instructions)].Address
              /\ Blocks[k].ID = k - 1
        /\ \A k \in 1 .. Len(Blocks) - 1 :
              Blocks[k].StartAddr < Blocks[k + 1].StartAddr

(* C11 case: a graph of several blocks, one of them with several           *)
(* instructions, one that ends without a terminator                        *)
C11_Witness ==
    /\ lpc = "built"
    /\ Len(Blocks) >= 3
    /\ \E k \in DOMAIN Blocks : Len(Blocks[k].Instructions) >= 2
    /\ \E k \in DOMAIN Blocks :
          ~IsTerminator(Blocks[k].Instructions[Len(Blocks[k].Instructions)])

(* C12: in the graph connectBlocks made through AddSuccessor, for all      *)
(* blocks A and B, B is in A.Successors exactly when A is in               *)
(* B.Predecessors, and no list holds a block twice.                        *)
C12_EdgesSymmetric ==
    HasGraph =>
        \A a \in DOMAIN Blocks :
            /\ NoDuplicates(Blocks[a].Successors)
            /\ NoDuplicates(Blocks[a].Predecessors)
            /\ \A b \in DOMAIN Blocks :
                  (b \in RangeOf(Blocks[a].Successors))
                     <=> (a \in RangeOf(Blocks[b].Predecessors))

(* C12 case: a block that is its own successor, and a conditional jump to  *)
(* the next block, whose second AddSuccessor call repeats the first        *)
C12_Witness ==
    /\ lpc = "built"
    /\ \E a \in DOMAIN Blocks : a \in RangeOf(Blocks[a].Successors)
    /\ \E a \in DOMAIN Blocks :
          /\ IsConditionalBranch(Blocks[a])
          /\ a < Len(Blocks)
          /\ BlockMap(Blocks,
                      Blocks[a].Instructions[Len(Blocks[a].Instructions)].BranchTarget)
                = a + 1
          /\ Blocks[a].Successors = <<a + 1>>

(* the blocks reached from the blocks of S along successor edges without   *)
(* entering the block `without` (Nil: no block is barred)                  *)
RECURSIVE ReachedFrom(_, _, _)
ReachedFrom(blocks, S, without) ==
    IF S \cup {s \in DOMAIN blocks \ {without} :
                  \E b \in S : s \in RangeOf(blocks[b].Successors)} = S
    THEN S
    ELSE ReachedFrom(blocks,
                     S \cup {s \in DOMAIN blocks \ {without} :
                                \E b \in S : s \in RangeOf(blocks[b].Successors)},
                     without)

(* the blocks reachable from the entry block *)
Reachable(blocks) == ReachedFrom(blocks, {1}, Nil)

(* C13: after BuildCFG on a non-empty function the entry block's           *)
(* DominatedBy is the entry block, and entry.Dominates(b) is true for      *)
(* every block b reachable from the entry.                                 *)
C13_EntryDominates ==
    (HasGraph /\ func.Instructions # <<>>) =>
        /\ graph.EntryBlock = 1
        /\ Blocks[1].DominatedBy = 1
        /\ \A b \in Reachable(Blocks) : Dominates(Blocks, 1, b) = "true"

(* C13 case: three reachable blocks, one of them reached by two edges, and *)
(* a block that is not reachable                                           *)
C13_Witness ==
    /\ lpc = "built"
    /\ Cardinality(Reachable(Blocks)) >= 3
    /\ \E b \in Reachable(Blocks) \ {1} : Len(Blocks[b].Predecessors) >= 2
    /\ Reachable(Blocks) # DOMAIN Blocks

(* d strictly dominates b: b is reachable, d is another block, and no path *)
(* from the entry reaches b without entering d                             *)
StrictlyDominates(blocks, d, b) ==
    /\ b \in Reachable(blocks)
    /\ d # b
    /\ \/ d = 1
       \/ b \notin ReachedFrom(blocks, {1}, d)

(* d is the immediate dominator of b: the strict dominator of b that every *)
(* other strict dominator of b strictly dominates                          *)
ImmediatelyDominates(blocks, d, b) ==
    /\ d \in DOMAIN blocks
    /\ StrictlyDominates(blocks, d, b)
    /\ \A e \in DOMAIN blocks \ {d} :
          StrictlyDominates(blocks, e, b) => StrictlyDominates(blocks, e, d)

(* C14: after BuildCFG the DominatedBy of every reachable block other than *)
(* the entry is the block's immediate dominator; in the chain B0 -> B1 ->  *)
(* B2 that of B2 is B1.                                                    *)
C14_StoredIdomIsTrue ==
    HasGraph =>
        \A b \in Reachable(Blocks) \ {1} :
            ImmediatelyDominates(Blocks, Blocks[b].DominatedBy, b)

(* the edges A -> B whose head B dominates the tail A *)
BackEdges(blocks) ==
    {e \in Reachable(blocks) \X DOMAIN blocks :
        /\ e[2] \in RangeOf(blocks[e[1]].Successors)
        /\ (e[2] = e[1] \/ StrictlyDominates(blocks, e[2], e[1]))}

(* the graph B0 -> B1, B1 -> B2, B2 -> B1 *)
IsLoopExample(blocks) ==
    /\ Len(blocks) = 3
    /\ blocks[1].Successors = <<2>>
    /\ blocks[2].Successors = <<3>>
    /\ blocks[3].Successors = <<2>>

(* C15: on every graph BuildCFG made, DetectLoops returns, with one loop   *)
(* for each edge A -> B whose head dominates its tail, the header of the   *)
(* loop being B, and LoopHeader set on the members of the loops; on the    *)
(* graph B0 -> B1, B1 -> B2, B2 -> B1 it returns one loop with header B1   *)
(* and members {B1, B2}, and B1.LoopHeader = B2.LoopHeader = B1.           *)
C15_OneLoopPerBackEdge ==
    /\ lpc # "loopsHung"
    /\ lpc = "loops" =>
          /\ \A h \in DOMAIN Blocks :
                Cardinality({k \in DOMAIN loops : loops[k].Header = h})
                   = Cardinality({e \in BackEdges(Blocks) : e[2] = h})
          /\ \A k \in DOMAIN loops :
                \A m \in RangeOf(loops[k].Blocks) :
                   \E j \in DOMAIN loops :
                      /\ m \in RangeOf(loops[j].Blocks)
                      /\ Blocks[m].LoopHeader = loops[j].Header
          /\ IsLoopExample(Blocks) =>
                /\ Len(loops) = 1
                /\ loops[1].Header = 2
                /\ RangeOf(loops[1].Blocks) = {2, 3}
                /\ Blocks[2].LoopHeader = 2
                /\ Blocks[3].LoopHeader = 2

(* the blocks from which tail is reached along edges on a path that does   *)
(* not hold header                                                         *)
RECURSIVE ReachesTail(_, _, _)
ReachesTail(blocks, S, header) ==
    IF S \cup {x \in DOMAIN blocks \ {header} :
                  \E s \in S : s \in RangeOf(blocks[x].Successors)} = S
    THEN S
    ELSE ReachesTail(blocks,
                     S \cup {x \in DOMAIN blocks \ {header} :
                                \E s \in S : s \in RangeOf(blocks[x].Successors)},
                     header)

(* C16: for the loop constructLoop(tail, header) built: the header is a    *)
(* member; the members are the header and the blocks from which the tail   *)
(* is reachable without passing through the header, each once; Exits is    *)
(* the set of members with a successor outside the members, so that Exits  *)
(* is within Blocks.                                                       *)
C16_LoopMembersAndExits ==
    lpc = "loop" =>
        /\ loops[1].Header = edge.header
        /\ edge.header \in RangeOf(loops[1].Blocks)
        /\ RangeOf(loops[1].Blocks) =
              {edge.header}
              \cup ReachesTail(Blocks, {edge.tail} \ {edge.header}, edge.header)
        /\ NoDuplicates(loops[1].Blocks)
        /\ RangeOf(loops[1].Exits) =
              {m \in RangeOf(loops[1].Blocks) :
                  \E s \in RangeOf(Blocks[m].Successors) :
                      s \notin RangeOf(loops[1].Blocks)}
        /\ NoDuplicates(loops[1].Exits)
        /\ RangeOf(loops[1].Exits) \subseteq RangeOf(loops[1].Blocks)

(* C16 case: an edge tail -> header between two blocks, a loop of three    *)
(* members or more, one of which leaves the loop                           *)
C16_Witness ==
    /\ lpc = "loop"
    /\ edge.tail # edge.header
    /\ edge.header \in RangeOf(Blocks[edge.tail].Successors)
    /\ Len(loops[1].Blocks) >= 3
    /\ loops[1].Exits # <<>>
    /\ Len(loops[1].Blocks) < Len(Blocks)

(* the if/else diamond B0 -> {B1, B2}, B1 -> B3, B2 -> B3 *)
IsDiamond(blocks) ==
    /\ Len(blocks) = 4
    /\ IsConditionalBranch(blocks[1])
    /\ RangeOf(blocks[1].Successors) = {2, 3}
    /\ blocks[2].Successors = <<4>>
    /\ blocks[3].Successors = <<4>>
    /\ blocks[4].Successors = <<>>

(* the blocks other than s1 and s2 that both reach *)
CommonBlocks(blocks, s1, s2) ==
    (ReachedFrom(blocks, {s1}, Nil) \cap ReachedFrom(blocks, {s2}, Nil))
       \ {s1, s2}

(* C17: for every block that ends in a conditional branch and has two      *)
(* successors S1 and S2, DetectConditionals returns exactly one            *)
(* conditional whose Condition is the block; when a block other than S1    *)
(* and S2 is reachable from both, its Type is CondIfThenElse and its       *)
(* MergePoint is such a block.  The diamond yields one conditional, of     *)
(* Type CondIfThenElse, with MergePoint B3.                                *)
C17_ConditionalPerBranch ==
    lpc = "conds" =>
        /\ \A b \in DOMAIN Blocks :
              (IsConditionalBranch(Blocks[b]) /\ Len(Blocks[b].Successors) = 2) =>
                 /\ Cardinality({k \in DOMAIN conds : conds[k].Condition = b}) = 1
                 /\ CommonBlocks(Blocks, Blocks[b].Successors[1],
                                 Blocks[b].Successors[2]) # {} =>
                       \A k \in DOMAIN conds :
                          conds[k].Condition = b =>
                             /\ conds[k].Type = CondIfThenElse
                             /\ conds[k].MergePoint \in
                                   CommonBlocks(Blocks, Blocks[b].Successors[1],
                                                Blocks[b].Successors[2])
        /\ IsDiamond(Blocks) =>
              /\ Len(conds) = 1
              /\ conds[1].Type = CondIfThenElse
              /\ conds[1].MergePoint = 4

(* C17 case: the diamond, analysed *)
C17_Witness ==
    /\ lpc = "conds"
    /\ IsDiamond(Blocks)
    /\ Len(conds) = 1

(* the section 55 48 89 E5 48 83 EC 10 C3 at 0x3000, x86_64 *)
IsPrologue ==
    /\ arch = "x86_64"
    /\ section.Address = 12288
    /\ section.Data = <<\h55, \h48, \h89, \hE5, \h48, \h83, \hEC, \h10, \hC3>>

(* the operations of a kind in the lifted form *)
OperationsOf(type) == SelectSeq(df.Operations, LAMBDA op : op.Type = type)

(* C18: sweep, FindFunctions, BuildCFG and Decompile on 55 48 89 E5 48 83  *)
(* EC 10 C3 at 0x3000 (x86_64) give one function, a graph of one block,    *)
(* and a lifted form of exactly four operations with HasReturn set, among  *)
(* them one OpArithmetic for `sub rsp, 0x10` and one OpReturn for `ret`.   *)
C18_PrologueLifts ==
    IsPrologue =>
        /\ pc = "returned" => Len(analyzeRet.functions) = 1
        /\ HasGraph => Len(Blocks) = 1
        /\ lpc = "decompiled" =>
              /\ Len(df.Operations) = 4
              /\ df.HasReturn
              /\ Len(OperationsOf(OpArithmetic)) = 1
              /\ OperationsOf(OpArithmetic)[1].Operator = "sub"
              /\ OperationsOf(OpArithmetic)[1].Dest = "rsp"
              /\ OperationsOf(OpArithmetic)[1].Src2 = "0x10"
              /\ Len(OperationsOf(OpReturn)) = 1

(* C19: after Decompile the names in df.Variables are pairwise distinct    *)
(* and each is var<N> with 0 <= N < df.LocalVars.                          *)
C19_VariableNames ==
    lpc = "decompiled" =>
        /\ \A i, j \in DOMAIN df.Variables :
              df.Variables[i].Name = df.Variables[j].Name => i = j
        /\ \A i \in DOMAIN df.Variables :
              \E n \in 0 .. df.LocalVars - 1 :
                 df.Variables[i].Name = "var" \o Decimal(n)

(* C19 case: two variables recorded, and a third name handed out between   *)
(* or after them without a record                                          *)
C19_Witness ==
    /\ lpc = "decompiled"
    /\ Len(df.Variables) >= 2
    /\ df.LocalVars > Len(df.Variables)

(* the BranchTarget of the call instructions of a list, in order *)
CallTargets(insts) ==
    [k \in DOMAIN SelectSeq(insts, LAMBDA x : x.Mnemonic = "call") |->
        SelectSeq(insts, LAMBDA x : x.Mnemonic = "call")[k].BranchTarget]

(* C20: for every function FindFunctions emitted, Calls holds, in          *)
(* instruction order, the BranchTarget of each call instruction of the     *)
(* function.                                                               *)
C20_CallsAreTargets ==
    pc = "returned" =>
        \A k \in DOMAIN analyzeRet.functions :
            analyzeRet.functions[k].Calls
               = CallTargets(analyzeRet.functions[k].Instructions)

-----------------------------------------------------------------------------
(* Function discovery.  The properties read what FindFunctions returned    *)
(* for the list in `instructions` and the table in `binarySymbols`.        *)

Found == lpc = "found" \/ (pc = "returned" /\ Swept)

Functions == analyzeRet.functions

(* the last instruction of function f *)
LastOf(f) == f.Instructions[Len(f.Instructions)]

(* C21: every function FindFunctions emits has end_addr equal to the       *)
(* address of its last instruction, however the function was closed (by a  *)
(* ret, by the next marked start, by the end of the stream).               *)
C21_EndAddrIsLastInstruction ==
    Found =>
        \A k \in DOMAIN Functions :
            /\ Functions[k].Instructions # <<>>
            /\ Functions[k].EndAddr = LastOf(Functions[k]).Address

(* the positions of the run of consecutive nops that position i is in *)
NopRun(insts, i) ==
    {j \in DOMAIN insts :
        \A k \in DOMAIN insts :
            (j <= k /\ k <= i) \/ (i <= k /\ k <= j) => insts[k].Mnemonic = "nop"}

(* padding as the specification words it: int 3, or a nop in a run of six  *)
(* or more                                                                 *)
IsPadding(insts, i) ==
    \/ insts[i].Mnemonic = "int" /\ insts[i].Operands = "3"
    \/ insts[i].Mnemonic = "nop" /\ Cardinality(NopRun(insts, i)) >= 6

(* C22: no int 3 and no nop of a run of six or more consecutive nops is    *)
(* marked as a function start, and no emitted function starts at one, even *)
(* when the symbol table holds its address.                                *)
C22_PaddingNeverStarts ==
    Found =>
        \A i \in DOMAIN instructions :
            IsPadding(instructions, i) =>
                /\ instructions[i].Address \notin funcStarts(instructions, binarySymbols)
                /\ \A k \in DOMAIN Functions :
                      Functions[k].StartAddr # instructions[i].Address

(* the addresses of the instructions of the emitted functions *)
Owned == UNION {{Functions[k].Instructions[j].Address :
                    j \in DOMAIN Functions[k].Instructions} : k \in DOMAIN Functions}

(* position i comes after a ret with no marked start from that ret on *)
AfterRetBeforeStart(insts, starts, i) ==
    \E r \in DOMAIN insts :
        /\ r < i
        /\ insts[r].Mnemonic = "ret"
        /\ \A k \in (r + 1) .. i : insts[k].Address \notin starts

(* C23: a function is closed right after a ret: an emitted function holds  *)
(* at most one ret, and that ret is its last instruction; the instructions *)
(* after a ret and before the next marked start are in no function.        *)
C23_ClosedAfterRet ==
    Found =>
        /\ \A k \in DOMAIN Functions :
              \A j \in DOMAIN Functions[k].Instructions :
                  Functions[k].Instructions[j].Mnemonic = "ret"
                      => j = Len(Functions[k].Instructions)
        /\ \A i \in DOMAIN instructions :
              AfterRetBeforeStart(instructions,
                                  funcStarts(instructions, binarySymbols), i)
                  => instructions[i].Address \notin Owned

(* a function of two or more instructions that its ret closed, followed by *)
(* an instruction that no function holds, followed by another function     *)
C23_Witness ==
    /\ lpc = "found"
    /\ Len(Functions) >= 2
    /\ Len(Functions[1].Instructions) >= 2
    /\ LastOf(Functions[1]).Mnemonic = "ret"
    /\ \E i \in DOMAIN instructions :
          /\ AfterRetBeforeStart(instructions,
                                 funcStarts(instructions, binarySymbols), i)
          /\ instructions[i].Address < Functions[2].StartAddr

(* f is the run of insts that starts at position p *)
IsRunAt(insts, f, p) ==
    /\ p + Len(f.Instructions) - 1 <= Len(insts)
    /\ f.Instructions = SubSeq(insts, p, p + Len(f.Instructions) - 1)

(* C24: for a stream with strictly increasing addresses and any symbol     *)
(* table, the functions FindFunctions returns are in increasing order of   *)
(* start address (so none is emitted twice), each is a non-empty           *)
(* contiguous run of the stream whose first instruction is a marked start  *)
(* at start_addr, and no instruction is in two functions.                  *)
C24_FunctionsPartitionStream ==
    Found /\ StrictlyIncreasing(instructions) =>
        /\ \A k, l \in DOMAIN Functions :
              k < l => Functions[k].StartAddr < Functions[l].StartAddr
        /\ \A k \in DOMAIN Functions :
              /\ Functions[k].Instructions # <<>>
              /\ Functions[k].Instructions[1].Address = Functions[k].StartAddr
              /\ Functions[k].StartAddr \in funcStarts(instructions, binarySymbols)
              /\ \E p \in DOMAIN instructions :
                    IsRunAt(instructions, Functions[k], p)
        /\ \A k, l \in DOMAIN Functions :
              k # l =>
                 \A i \in DOMAIN Functions[k].Instructions,
                    j \in DOMAIN Functions[l].Instructions :
                     Functions[k].Instructions[i].Address
                        # Functions[l].Instructions[j].Address

(* two functions from a table with symbols, the first of two instructions  *)
(* or more and closed by its ret before the stream ends                    *)
C24_Witness ==
    /\ lpc = "found"
    /\ binarySymbols # <<>>
    /\ Len(Functions) >= 2
    /\ Len(Functions[1].Instructions) >= 2
    /\ LastOf(Functions[1]).Mnemonic = "ret"
    /\ Functions[2].Name = "main"

-----------------------------------------------------------------------------
(* Blocks, loops and lifting, continued.                                   *)

(* C25: in a graph BuildCFG built every block has one exit: a jump, call   *)
(* or return that another instruction of the function follows is the last  *)
(* instruction of its block, so no block holds a control transfer before   *)
(* its last position.                                                      *)
C25_TransferEndsBlock ==
    HasGraph =>
        \A b \in DOMAIN Blocks :
            \A j \in 1 .. Len(Blocks[b].Instructions) - 1 :
                ~IsControlFlow(Blocks[b].Instructions[j])

(* C26: on a graph BuildCFG made (dominators computed, the entry block its  *)
(* own immediate dominator) DetectLoops terminates: every call             *)
(* succ.Dominates(block) that findBackEdges makes returns, also for an     *)
(* edge whose head does not dominate its tail.                             *)
C26_DominatesReturns ==
    lpc = "built" =>
        \A b \in DOMAIN Blocks :
            \A k \in DOMAIN Blocks[b].Successors :
                Dominates(Blocks, Blocks[b].Successors[k], b) # "hang"

(* the members of loop a strictly contain those of loop b *)
StrictlyContains(a, b) ==
    /\ RangeOf(b.Blocks) \subseteq RangeOf(a.Blocks)
    /\ RangeOf(b.Blocks) # RangeOf(a.Blocks)

(* C27: after buildLoopHierarchy on any list of loops, two loops with the  *)
(* same members included, the parent of a loop is absent or is a loop      *)
(* whose members strictly contain the loop's own and that is smallest      *)
(* among such loops; so no loop is its own ancestor and GetDepth           *)
(* terminates.                                                             *)
C27_ParentStrictlyContains ==
    lpc = "hierarchy" =>
        \A k \in DOMAIN loops :
            /\ loops[k].Parent # Nil =>
                  /\ StrictlyContains(loops[loops[k].Parent], loops[k])
                  /\ \A j \in DOMAIN loops :
                        StrictlyContains(loops[j], loops[k]) =>
                            Cardinality(RangeOf(loops[loops[k].Parent].Blocks))
                               <= Cardinality(RangeOf(loops[j].Blocks))
            /\ GetDepth(loops, k) # Diverges

(* the operations Decompile emitted for the instruction at address addr *)
OperationsAt(addr) == SelectSeq(df.Operations, LAMBDA op : op.Address = addr)

(* a mov with two operands that loads from a local (src names rbp or rsp)  *)
(* or moves register to register (neither operand names rbp or rsp)        *)
IsLoadOrRegisterMove(inst) ==
    /\ inst.Mnemonic = "mov"
    /\ Len(SplitComma(inst.Operands)) = 2
    /\ \/ Contains(SplitComma(inst.Operands)[2], "rbp")
       \/ Contains(SplitComma(inst.Operands)[2], "rsp")
       \/ /\ ~Contains(SplitComma(inst.Operands)[1], "rbp")
          /\ ~Contains(SplitComma(inst.Operands)[1], "rsp")

(* C28: every mov that loads from a local or moves register to register    *)
(* appends exactly one Assign operation, with the address of the mov, to   *)
(* the operation list.                                                     *)
C28_MovAppendsAssign ==
    lpc = "decompiled" =>
        \A i \in DOMAIN func.Instructions :
            IsLoadOrRegisterMove(func.Instructions[i]) =>
                /\ Len(OperationsAt(func.Instructions[i].Address)) = 1
                /\ OperationsAt(func.Instructions[i].Address)[1].Type = OpAssign

(* the jump mnemonics of the decoders: jmp, the sixteen Jcc of             *)
(* jccMnemonic, jrcxz and the loop family                                  *)
DecoderJumps ==
    {"jmp", "jo", "jno", "jb", "jae", "je", "jne", "jbe", "ja", "js", "jns",
     "jp", "jnp", "jl", "jge", "jle", "jg", "jrcxz", "loop", "loope", "loopne"}

(* C29: every instruction whose mnemonic is a jump (jmp, every Jcc the     *)
(* decoder produces, jrcxz, the loop family) is lifted to an If operation  *)
(* whose operator is the mnemonic and whose src1 is the target operand.    *)
C29_JumpsLiftToIf ==
    lpc = "decompiled" =>
        \A i \in DOMAIN func.Instructions :
            func.Instructions[i].Mnemonic \in DecoderJumps =>
                /\ Len(OperationsAt(func.Instructions[i].Address)) = 1
                /\ OperationsAt(func.Instructions[i].Address)[1].Type = OpIf
                /\ OperationsAt(func.Instructions[i].Address)[1].Operator
                      = func.Instructions[i].Mnemonic
                /\ OperationsAt(func.Instructions[i].Address)[1].Src1
                      = func.Instructions[i].Operands

(* the names the counter has handed out when it stands at n *)
HandedOut(n) == {VarName(k) : k \in 0 .. n - 1}

(* C30: after Decompile every name the counter handed out (the names in    *)
(* the register map, every var<N> that is dest or src of an operation)     *)
(* has a Variable record, so the variable list has LocalVars entries.      *)
C30_EveryNameHasRecord ==
    lpc = "decompiled" =>
        /\ Len(df.Variables) = df.LocalVars
        /\ \A name \in HandedOut(df.LocalVars) :
              \E v \in DOMAIN df.Variables : df.Variables[v].Name = name
        /\ \A o \in DOMAIN df.Operations :
              \A name \in {df.Operations[o].Dest, df.Operations[o].Src1}
                             \cap HandedOut(df.LocalVars) :
                  \E v \in DOMAIN df.Variables : df.Variables[v].Name = name

====
